---- MODULE Spec2Model ----
(***************************************************************************)
(* pansou: the asynchronous plugin dispatch and caching engine.            *)
(*                                                                         *)
(* One plugin instance (BaseAsyncPlugin) serves a bounded number of        *)
(* concurrent searchPlugins queries.  Every goroutine of the source is a   *)
(* process of the model and every access to shared state (the sync.Map     *)
(* apiResponseCache, the channels of a call, the final-update tracker, the *)
(* main cache, the worker pool) is one step.                               *)
(*                                                                         *)
(* Time is sampled with a quantum between 0.8*cacheTTL and cacheTTL, so an *)
(* entry of age 0 is fresh, of age 1 is past 80% of its TTL but not        *)
(* expired, and of age >= 2 is expired.                                    *)
(***************************************************************************)
EXTENDS Integers, Sequences, FiniteSets, TLC

(***************************************************************************)
(* Bounds of the model.                                                    *)
(***************************************************************************)
\* number of searchPlugins queries (each dispatches one AsyncSearch)
MaxCalls == 2
\* last value of the sampled clock
MaxClock == 2
\* capacity of backgroundWorkerPool (config AsyncMaxBackgroundWorkers)
MaxBackgroundWorkers == 1
\* bound on backgroundTasksCount (config AsyncMaxBackgroundTasks)
MaxBackgroundTasks == 2

Calls == 1..MaxCalls
KeywordList == <<"k1", "k2">>
Keywords == { KeywordList[i] : i \in 1..Len(KeywordList) }

(***************************************************************************)
(* model.SearchResult, reduced to the fields the engine reads.             *)
(***************************************************************************)
Result(id, title, dt, links, content, channel, tags) ==
    [UniqueID |-> id, MessageID |-> "", Title |-> title, Datetime |-> dt,
     Links |-> links, Content |-> content, Channel |-> channel, Tags |-> tags]

\* what a plugin's searchFn can answer: nothing, one result, or a newer
\* version of that result together with a second one
RA1 == Result("p-a", "old", 1, <<"u1">>, "", "", <<>>)
RA2 == Result("p-a", "new", 2, <<"u1">>, "", "", <<>>)
RB  == Result("p-b", "other", 1, <<"u2">>, "", "", <<>>)
SearchOutputs == { <<>>, <<RA1>>, <<RA2, RB>> }
SearchError == "error"

Range(s) == { s[i] : i \in 1..Len(s) }
IDs(s) == { s[i].UniqueID : i \in 1..Len(s) }


(***************************************************************************)
(* Time.  One unit is a tenth of the default cache TTL; the clock advances *)
(* by one quantum of cacheTTL - 1 units.                                   *)
(***************************************************************************)
cacheTTL == 10
Quantum == cacheTTL - 1
Since(ts, clk) == (clk - ts) * Quantum

VARIABLES
    clock,                 \* sampled wall clock, in quanta
    cacheInitialized,      \* the main cache exists and its updater is injected
    apiResponseCache,      \* per-plugin response cache, keyed "<plugin>:<keyword>"
    mainCache,             \* main cache, keyed by GeneratePluginCacheKey(keyword, nil)
    finalUpdateTracker,    \* p.finalUpdateTracker: the update keys already written
    backgroundWorkerPool,  \* number of tokens in the semaphore channel
    backgroundTasksCount,  \* atomic task counter
    call,                  \* per query: the goroutine running searchPlugins/AsyncSearch
    resultChan, errorChan, \* per call: buffered channels of capacity 1
    doneChan,              \* per call: number of close(doneChan) executed
    task,                  \* per call and kind: background goroutines
    updaterLog,            \* history: every invocation of p.mainCacheUpdater
    slot,                  \* worker-pool processes (fine-grained acquire/release)
    mrg,                   \* inputs and outputs of mergeSearchResults
    srv,                   \* one Search request of the service and its response
    pm,                    \* the PluginManager and the Initialize calls it has made
    sweeper                \* cleanupExpiredApiCache: its globals, its position, its log

vars == <<clock, cacheInitialized, apiResponseCache, mainCache, finalUpdateTracker,
          backgroundWorkerPool, backgroundTasksCount, call, resultChan, errorChan,
          doneChan, task, updaterLog, slot, mrg, srv, pm, sweeper>>

sharedVars == <<clock, cacheInitialized, apiResponseCache, mainCache,
                finalUpdateTracker, call, resultChan, errorChan, doneChan,
                updaterLog>>
poolVars == <<backgroundWorkerPool, backgroundTasksCount>>

(***************************************************************************)
(* cachedResponse (async_infrastructure.go) and the sync.Map holding it.   *)
(***************************************************************************)
\* Faulty variant of the entry constructor: every entry is marked complete.
alwaysCompleteResponse(results, ts, complete, lastAccess, accessCount) ==
    [present |-> TRUE, Results |-> results, Timestamp |-> ts, Complete |-> TRUE,
     LastAccess |-> lastAccess, AccessCount |-> accessCount]

cachedResponse(results, ts, complete, lastAccess, accessCount) ==
    [present |-> TRUE, Results |-> results, Timestamp |-> ts, Complete |-> complete,
     LastAccess |-> lastAccess, AccessCount |-> accessCount]
NoEntry ==
    [present |-> FALSE, Results |-> <<>>, Timestamp |-> 0, Complete |-> FALSE,
     LastAccess |-> 0, AccessCount |-> 0]

\* pluginSpecificCacheKey := fmt.Sprintf("%s:%s", p.name, keyword), one plugin
pluginSpecificCacheKey(keyword) == keyword
\* cache.GeneratePluginCacheKey(keyword, nil): one main key per keyword
GeneratePluginCacheKey(keyword) == keyword

NoData == [present |-> FALSE, data |-> <<>>]
Data(results) == [present |-> TRUE, data |-> results]

(***************************************************************************)
(* The merge of the background paths: every new result, then the old       *)
(* results whose UniqueID is not among the new ones.                       *)
(***************************************************************************)
NotIn(ids, r) == r.UniqueID \notin ids
mergeNewFirst(results, old) ==
    results \o SelectSeq(old, LAMBDA r : NotIn(IDs(results), r))

\* base_async.go 244-271 / 296-319: merged only when an old entry with results exists
mergeWithOldCache(results, oldCache) ==
    IF oldCache.present /\ Len(oldCache.Results) > 0
    THEN mergeNewFirst(results, oldCache.Results)
    ELSE results

(***************************************************************************)
(* recordCacheAccess: load, bump LastAccess and AccessCount, store.        *)
(***************************************************************************)
\* (the sweep that line 198 starts as a goroutine is the subject of SpecSweeper)
recordCacheAccess(cache, key, clk) ==
    IF cache[key].present
    THEN [cache EXCEPT ![key].LastAccess = clk,
                       ![key].AccessCount = cache[key].AccessCount + 1]
    ELSE cache

(***************************************************************************)
(* Worker pool, as one step each (the interleaving of their own steps is   *)
(* the subject of SpecPool below).                                         *)
(***************************************************************************)
acquireWorkerSlot ==
    /\ backgroundTasksCount < MaxBackgroundTasks
    /\ backgroundWorkerPool < MaxBackgroundWorkers

(***************************************************************************)
(* updateMainCacheWithFinal: the update key and the guards before it.      *)
(***************************************************************************)
dataHash(results) ==
    IF Len(results) > 1
    THEN <<Len(results), results[1].UniqueID, results[Len(results)].UniqueID>>
    ELSE <<Len(results), results[1].UniqueID>>
updateKey(cacheKey, results, isFinal) == <<cacheKey, dataHash(results), isFinal>>

\* part_001 21-28: nothing to do without updater, key or results
updateSkipped(cacheKey, results) ==
    \/ ~cacheInitialized
    \/ cacheKey = ""
    \/ Len(results) = 0

hasUpdatedFinalCache(key) == key \in finalUpdateTracker

\* search_service.go 89-91: the injected updater stores the data under the key
mainCacheUpdater(cache, key, results) == [cache EXCEPT ![key] = Data(results)]


(***************************************************************************)
(* Processes.  A call is the goroutine of one searchPlugins task running   *)
(* AsyncSearch; its background goroutines are tasks of four kinds:         *)
(*   bg      the func of base_async.go 198-341                             *)
(*   rf      refreshCacheInBackground                                      *)
(*   closer  the func of base_async.go 361-363                             *)
(*   wb      the write-back func of search_service.go 1031-1048            *)
(***************************************************************************)
Kinds == {"bg", "rf", "closer", "wb"}
TaskIds == Calls \X Kinds

IdleCall ==
    [pc |-> "idle", keyword |-> "", now |-> 0,
     via |-> "none", results |-> <<>>, err |-> FALSE]
IdleTask ==
    [pc |-> "none", pooled |-> FALSE, results |-> <<>>, oldCache |-> NoEntry,
     lastAccess |-> 0, accessCount |-> 0]

Spawn(pcv) == [IdleTask EXCEPT !.pc = pcv]

\* cleanupExpiredApiCache before its first call (async_infrastructure.go 46-47):
\* lastCleanupTime is the time the package was loaded
SweeperIdle ==
    [pc |-> "idle", cacheTTL |-> 0, lastCleanupTime |-> 0, pending |-> 0,
     hits |-> 0, now |-> 0, todo |-> {}, key |-> "", sweeps |-> 0,
     previous |-> 0, deleted |-> NoEntry, deletedAt |-> 0,
     accessKey |-> "", cachedItem |-> NoEntry]

EngineInit ==
    /\ clock = 0
    /\ cacheInitialized \in BOOLEAN
    /\ apiResponseCache = [k \in Keywords |-> NoEntry]
    /\ mainCache = [k \in Keywords |-> NoData]
    /\ finalUpdateTracker = {}
    /\ call = [c \in Calls |-> IdleCall]
    /\ resultChan = [c \in Calls |-> <<>>]
    /\ errorChan = [c \in Calls |-> <<>>]
    /\ doneChan = [c \in Calls |-> 0]
    /\ task = [t \in TaskIds |-> IdleTask]
    /\ updaterLog = {}
PoolInit ==
    /\ backgroundWorkerPool = 0
    /\ backgroundTasksCount = 0

\* A quantum of time passes.  It is two orders of magnitude longer than the
\* processing budget that bounds the life of a goroutine, so the clock is
\* sampled between bursts of activity.
Quiescent ==
    /\ \A c \in Calls : call[c].pc \in {"idle", "done"}
    /\ \A t \in TaskIds : task[t].pc \in {"none", "done"}
Tick ==
    /\ clock < MaxClock
    /\ Quiescent
    \* the clock starts with the first entry: only ages are ever read
    /\ \E k \in Keywords : apiResponseCache[k].present
    /\ clock' = clock + 1
    /\ UNCHANGED <<cacheInitialized, apiResponseCache, mainCache, finalUpdateTracker,
                   call, resultChan, errorChan, doneChan, task, updaterLog,
                   poolVars, slot, mrg, srv, pm, sweeper>>

(***************************************************************************)
(* searchPlugins returns `results` (nil after an error): the aggregate of  *)
(* its single task, and the write-back goroutine it starts.                *)
(***************************************************************************)
Returned(c, via, results, err) ==
    [call[c] EXCEPT !.pc = "done", !.via = via, !.results = results, !.err = err]
WriteBackTask == IF cacheInitialized THEN Spawn("pending") ELSE IdleTask

\* queries are numbered in the order they start and keywords in the order
\* they are first used
FirstKeywords(c) ==
    LET used == Cardinality({ call[d].keyword : d \in { e \in Calls : e < c } })
    IN { KeywordList[i] : i \in { j \in 1..Len(KeywordList) : j <= used + 1 } }

\* searchPlugins 902-936: the main-cache lookup of a query
StartSearch(c, keyword, forceRefresh) ==
    /\ call[c].pc = "idle"
    /\ \A d \in Calls : d < c => call[d].pc # "idle"
    /\ keyword \in FirstKeywords(c)
    /\ LET cacheKey == GeneratePluginCacheKey(keyword)
           started == [call[c] EXCEPT !.keyword = keyword]
       IN IF ~forceRefresh /\ cacheInitialized /\ mainCache[cacheKey].present
          THEN call' = [call EXCEPT ![c] =
                   [started EXCEPT !.pc = "done", !.via = "mainCache",
                                   !.results = mainCache[cacheKey].data]]
          ELSE call' = [call EXCEPT ![c] = [started EXCEPT !.pc = "dispatch"]]
    /\ UNCHANGED <<clock, cacheInitialized, apiResponseCache, mainCache,
                   finalUpdateTracker, resultChan, errorChan, doneChan, task,
                   updaterLog, poolVars, slot, mrg, srv, pm, sweeper>>

\* base_async.go 26, 106-108: p.currentKeyword is one field of the plugin
\* instance, written by SetCurrentKeyword when a query is handed to the
\* plugin: it holds the keyword of the query dispatched last
currentKeyword ==
    LET dispatched == { c \in Calls : call[c].pc # "idle" /\ call[c].via # "mainCache" }
    IN IF dispatched = {} THEN ""
       ELSE call[CHOOSE c \in dispatched : \A d \in dispatched : d <= c].keyword

(***************************************************************************)
(* AsyncSearch 149-198: the fast cache path, else the launch of bg.        *)
(***************************************************************************)
FreshComplete(e, clk) == e.present /\ Since(e.Timestamp, clk) < cacheTTL /\ e.Complete
\* Faulty variant: every fresh hit is taken to be near its expiry.
NearExpiryFromStart(e, clk) == Since(e.Timestamp, clk) >= 0
NearExpiry(e, clk) == Since(e.Timestamp, clk) > (cacheTTL * 4) \div 5
Expired(e, clk) == Since(e.Timestamp, clk) >= cacheTTL
\* base_async.go 172: an entry that is not fresh and complete is served when non-empty
ServesStale(e) == e.present /\ Len(e.Results) > 0

AsyncDispatch(c) ==
    /\ call[c].pc = "dispatch"
    /\ LET key == pluginSpecificCacheKey(call[c].keyword)
           e == apiResponseCache[key]
           refresh == [Spawn("acquire") EXCEPT !.oldCache = e]
       IN IF FreshComplete(e, clock)
          THEN /\ apiResponseCache' = recordCacheAccess(apiResponseCache, key, clock)
               /\ call' = [call EXCEPT ![c] =
                     [Returned(c, "hitFresh", e.Results, FALSE) EXCEPT !.now = clock]]
               /\ task' = [task EXCEPT
                     ![<<c, "rf">>] = IF NearExpiry(e, clock) THEN refresh ELSE @,
                     ![<<c, "wb">>] = WriteBackTask]
          ELSE IF ServesStale(e)
          THEN /\ apiResponseCache' = recordCacheAccess(apiResponseCache, key, clock)
               /\ call' = [call EXCEPT ![c] =
                     [Returned(c, "hitStale", e.Results, FALSE) EXCEPT !.now = clock]]
               /\ task' = [task EXCEPT
                     ![<<c, "rf">>] = IF Expired(e, clock) THEN refresh ELSE @,
                     ![<<c, "wb">>] = WriteBackTask]
          ELSE /\ call' = [call EXCEPT ![c].pc = "select", ![c].now = clock]
               /\ task' = [task EXCEPT ![<<c, "bg">>] = Spawn("acquire")]
               /\ UNCHANGED apiResponseCache
    /\ UNCHANGED <<clock, cacheInitialized, mainCache, finalUpdateTracker, resultChan,
                   errorChan, doneChan, updaterLog, poolVars, slot, mrg, srv, pm, sweeper>>


(***************************************************************************)
(* The background goroutine of AsyncSearch (base_async.go 198-341).        *)
(***************************************************************************)
Send(ch, c, v) == IF ch[c] = <<>> THEN [ch EXCEPT ![c] = <<v>>] ELSE ch
\* a goroutine ends: its locals are dropped, its deferred release (if any) is next
Exit(t) == [IdleTask EXCEPT !.pc = IF t.pooled THEN "release" ELSE "done",
                            !.pooled = t.pooled]

\* Faulty variant of the slot acquisition: a saturated pool is reported to
\* the caller as an error and the search is not run.
BgAcquireRejectsWhenSaturated(c) ==
    /\ task[<<c, "bg">>].pc = "acquire"
    /\ IF acquireWorkerSlot
       THEN /\ backgroundWorkerPool' = backgroundWorkerPool + 1
            /\ backgroundTasksCount' = backgroundTasksCount + 1
            /\ task' = [task EXCEPT ![<<c, "bg">>].pc = "search",
                                    ![<<c, "bg">>].pooled = TRUE]
            /\ UNCHANGED errorChan
       ELSE /\ task' = [task EXCEPT ![<<c, "bg">>].pc = "done"]
            /\ errorChan' = [errorChan EXCEPT ![c] = <<"error">>]
            /\ UNCHANGED poolVars
    /\ UNCHANGED <<clock, cacheInitialized, apiResponseCache, mainCache,
                   finalUpdateTracker, call, resultChan, doneChan,
                   updaterLog, slot, mrg, srv, pm, sweeper>>

\* 200, 230: a slot is taken, or the search runs in-line with the short client
BgAcquire(c) ==
    /\ task[<<c, "bg">>].pc = "acquire"
    /\ IF acquireWorkerSlot
       THEN /\ backgroundWorkerPool' = backgroundWorkerPool + 1
            /\ backgroundTasksCount' = backgroundTasksCount + 1
            /\ task' = [task EXCEPT ![<<c, "bg">>].pc = "search",
                                    ![<<c, "bg">>].pooled = TRUE]
       ELSE /\ task' = [task EXCEPT ![<<c, "bg">>].pc = "search"]
            /\ UNCHANGED poolVars
    /\ UNCHANGED <<clock, cacheInitialized, apiResponseCache, mainCache,
                   finalUpdateTracker, call, resultChan, errorChan, doneChan,
                   updaterLog, slot, mrg, srv, pm, sweeper>>

\* 202-214: searchFn(p.client) returns on the in-line path
BgInlineSearch(c, out) ==
    /\ task[<<c, "bg">>].pc = "search"
    /\ ~task[<<c, "bg">>].pooled
    /\ IF out.err
       THEN /\ errorChan' = Send(errorChan, c, SearchError)
            /\ task' = [task EXCEPT ![<<c, "bg">>] = Exit(@)]
            /\ UNCHANGED resultChan
       ELSE /\ resultChan' = Send(resultChan, c, out.results)
            /\ task' = [task EXCEPT ![<<c, "bg">>].pc = "inlineStore",
                                    ![<<c, "bg">>].results = out.results]
            /\ UNCHANGED errorChan
    /\ UNCHANGED <<clock, cacheInitialized, apiResponseCache, mainCache,
                   finalUpdateTracker, call, doneChan, updaterLog, poolVars, slot,
                   mrg, srv, pm, sweeper>>

\* 217-226: the in-line path stores its results and goes on to the final update
BgInlineStore(c) ==
    /\ task[<<c, "bg">>].pc = "inlineStore"
    /\ apiResponseCache' = [apiResponseCache EXCEPT
           ![pluginSpecificCacheKey(call[c].keyword)] =
               cachedResponse(task[<<c, "bg">>].results, call[c].now, TRUE,
                              call[c].now, 1)]
    /\ task' = [task EXCEPT ![<<c, "bg">>].pc = "updCheck"]
    /\ UNCHANGED <<clock, cacheInitialized, mainCache, finalUpdateTracker, call,
                   resultChan, errorChan, doneChan, updaterLog, poolVars, slot,
                   mrg, srv, pm, sweeper>>

\* Faulty variant of the pooled search: after the response an error is
\* treated as an empty result and goes on to the merge and the store.
BgPooledSearchCachesError(c, out) ==
    /\ task[<<c, "bg">>].pc = "search"
    /\ task[<<c, "bg">>].pooled
    /\ IF doneChan[c] > 0
       THEN /\ task' = [task EXCEPT ![<<c, "bg">>] =
                  [@ EXCEPT !.pc = "lateLoad", !.results = out.results]]
            /\ UNCHANGED errorChan
       ELSE IF out.err
       THEN /\ errorChan' = Send(errorChan, c, SearchError)
            /\ task' = [task EXCEPT ![<<c, "bg">>] = Exit(@)]
       ELSE /\ task' = [task EXCEPT ![<<c, "bg">>].pc = "earlyLoad",
                                    ![<<c, "bg">>].results = out.results]
            /\ UNCHANGED errorChan
    /\ UNCHANGED <<clock, cacheInitialized, apiResponseCache, mainCache,
                   finalUpdateTracker, call, resultChan, doneChan, updaterLog,
                   poolVars, slot, mrg, srv, pm, sweeper>>

\* 233-240, 287-294: searchFn(p.backgroundClient) returns and doneChan is polled
BgPooledSearch(c, out) ==
    /\ task[<<c, "bg">>].pc = "search"
    /\ task[<<c, "bg">>].pooled
    /\ IF doneChan[c] > 0
       THEN /\ task' = [task EXCEPT ![<<c, "bg">>] =
                  IF out.err THEN Exit(@)
                  ELSE [@ EXCEPT !.pc = "lateLoad", !.results = out.results]]
            /\ UNCHANGED errorChan
       ELSE IF out.err
       THEN /\ errorChan' = Send(errorChan, c, SearchError)
            /\ task' = [task EXCEPT ![<<c, "bg">>] = Exit(@)]
       ELSE /\ task' = [task EXCEPT ![<<c, "bg">>].pc = "earlyLoad",
                                    ![<<c, "bg">>].results = out.results]
            /\ UNCHANGED errorChan
    /\ UNCHANGED <<clock, cacheInitialized, apiResponseCache, mainCache,
                   finalUpdateTracker, call, resultChan, doneChan, updaterLog,
                   poolVars, slot, mrg, srv, pm, sweeper>>

\* 241-271: after the response, the old entry is loaded and merged
BgLateLoad(c) ==
    /\ task[<<c, "bg">>].pc = "lateLoad"
    /\ LET old == apiResponseCache[pluginSpecificCacheKey(call[c].keyword)]
       IN task' = [task EXCEPT ![<<c, "bg">>] =
              [@ EXCEPT !.pc = "lateStore",
                        !.results = mergeWithOldCache(@, old),
                        !.lastAccess = IF old.present THEN old.LastAccess
                                       ELSE call[c].now,
                        !.accessCount = IF old.present THEN old.AccessCount ELSE 1]]
    /\ UNCHANGED <<clock, cacheInitialized, apiResponseCache, mainCache,
                   finalUpdateTracker, call, resultChan, errorChan, doneChan,
                   updaterLog, poolVars, slot, mrg, srv, pm, sweeper>>

\* 273-283
BgLateStore(c) ==
    /\ task[<<c, "bg">>].pc = "lateStore"
    /\ LET t == task[<<c, "bg">>]
       IN apiResponseCache' = [apiResponseCache EXCEPT
              ![pluginSpecificCacheKey(call[c].keyword)] =
                  cachedResponse(t.results, call[c].now, TRUE, t.lastAccess,
                                 t.accessCount)]
    /\ task' = [task EXCEPT ![<<c, "bg">>].pc = "updCheck"]
    /\ UNCHANGED <<clock, cacheInitialized, mainCache, finalUpdateTracker, call,
                   resultChan, errorChan, doneChan, updaterLog, poolVars, slot,
                   mrg, srv, pm, sweeper>>

\* 295-324: before the response, the old entry is merged and the result is sent
BgEarlyLoad(c) ==
    /\ task[<<c, "bg">>].pc = "earlyLoad"
    /\ LET old == apiResponseCache[pluginSpecificCacheKey(call[c].keyword)]
           merged == mergeWithOldCache(task[<<c, "bg">>].results, old)
       IN /\ task' = [task EXCEPT ![<<c, "bg">>].pc = "earlyStore",
                                  ![<<c, "bg">>].results = merged]
          /\ resultChan' = Send(resultChan, c, merged)
    /\ UNCHANGED <<clock, cacheInitialized, apiResponseCache, mainCache,
                   finalUpdateTracker, call, errorChan, doneChan, updaterLog,
                   poolVars, slot, mrg, srv, pm, sweeper>>

\* 327-336
BgEarlyStore(c) ==
    /\ task[<<c, "bg">>].pc = "earlyStore"
    /\ apiResponseCache' = [apiResponseCache EXCEPT
           ![pluginSpecificCacheKey(call[c].keyword)] =
               cachedResponse(task[<<c, "bg">>].results, call[c].now, TRUE,
                              call[c].now, 1)]
    /\ task' = [task EXCEPT ![<<c, "bg">>].pc = "updCheck"]
    /\ UNCHANGED <<clock, cacheInitialized, mainCache, finalUpdateTracker, call,
                   resultChan, errorChan, doneChan, updaterLog, poolVars, slot,
                   mrg, srv, pm, sweeper>>


(***************************************************************************)
(* updateMainCacheWithFinal(cacheKey, results, true) as run by a bg or rf  *)
(* task: the tracker is read under RLock, written under Lock, and the      *)
(* updater is called after both locks are released.                        *)
(***************************************************************************)
Updaters == Calls \X {"bg", "rf"}

\* part_001 21-41
UpdCheck(t) ==
    /\ task[t].pc = "updCheck"
    /\ LET cacheKey == GeneratePluginCacheKey(call[t[1]].keyword)
       IN task' = [task EXCEPT ![t] =
              IF updateSkipped(cacheKey, @.results) THEN Exit(@)
              ELSE IF hasUpdatedFinalCache(updateKey(cacheKey, @.results, TRUE))
              THEN Exit(@)
              ELSE [@ EXCEPT !.pc = "updMark"]]
    /\ UNCHANGED <<clock, cacheInitialized, apiResponseCache, mainCache,
                   finalUpdateTracker, call, resultChan, errorChan, doneChan,
                   updaterLog, poolVars, slot, mrg, srv, pm, sweeper>>

\* part_001 44, 64-68
markFinalCacheUpdated(t) ==
    /\ task[t].pc = "updMark"
    /\ finalUpdateTracker' = finalUpdateTracker \cup
           {updateKey(GeneratePluginCacheKey(call[t[1]].keyword), task[t].results, TRUE)}
    /\ task' = [task EXCEPT ![t].pc = "updInvoke"]
    /\ UNCHANGED <<clock, cacheInitialized, apiResponseCache, mainCache, call,
                   resultChan, errorChan, doneChan, updaterLog, poolVars, slot,
                   mrg, srv, pm, sweeper>>

\* part_001 48-53
UpdInvoke(t) ==
    /\ task[t].pc = "updInvoke"
    /\ LET cacheKey == GeneratePluginCacheKey(call[t[1]].keyword)
       IN /\ mainCache' = mainCacheUpdater(mainCache, cacheKey, task[t].results)
          /\ updaterLog' = updaterLog \cup
                 {[by |-> t, key |-> cacheKey, results |-> task[t].results,
                   isFinal |-> TRUE, keyword |-> currentKeyword]}
    /\ task' = [task EXCEPT ![t] = Exit(@)]
    /\ UNCHANGED <<clock, cacheInitialized, apiResponseCache, finalUpdateTracker,
                   call, resultChan, errorChan, doneChan, poolVars, slot, mrg, srv, pm, sweeper>>

\* Faulty variant of the release: the task ends and its slot stays taken.
ReleaseKeepsSlot(t) ==
    /\ task[t].pc = "release"
    /\ task' = [task EXCEPT ![t] = [IdleTask EXCEPT !.pc = "done"]]
    /\ UNCHANGED <<sharedVars, poolVars, slot, mrg, srv, pm, sweeper>>

\* the deferred releaseWorkerSlot of a task that holds a slot
Release(t) ==
    /\ task[t].pc = "release"
    /\ backgroundWorkerPool' = backgroundWorkerPool - 1
    /\ backgroundTasksCount' = backgroundTasksCount - 1
    /\ task' = [task EXCEPT ![t] = [IdleTask EXCEPT !.pc = "done"]]
    /\ UNCHANGED <<sharedVars, slot, mrg, srv, pm, sweeper>>

(***************************************************************************)
(* refreshCacheInBackground (base_async.go 614-679); oldCache is the entry *)
(* the dispatching call had loaded.                                        *)
(***************************************************************************)
RfAcquire(c) ==
    /\ task[<<c, "rf">>].pc = "acquire"
    /\ IF acquireWorkerSlot
       THEN /\ backgroundWorkerPool' = backgroundWorkerPool + 1
            /\ backgroundTasksCount' = backgroundTasksCount + 1
            /\ task' = [task EXCEPT ![<<c, "rf">>].pc = "search",
                                    ![<<c, "rf">>].pooled = TRUE]
       ELSE /\ task' = [task EXCEPT ![<<c, "rf">>] = Exit(@)]
            /\ UNCHANGED poolVars
    /\ UNCHANGED <<sharedVars, slot, mrg, srv, pm, sweeper>>

\* 639-659
RfSearch(c, out) ==
    /\ task[<<c, "rf">>].pc = "search"
    /\ LET old == task[<<c, "rf">>].oldCache
       IN task' = [task EXCEPT ![<<c, "rf">>] =
              IF out.err \/ Len(out.results) = 0 THEN Exit(@)
              ELSE [@ EXCEPT !.pc = "store",
                             !.results = mergeNewFirst(out.results, old.Results)]]
    /\ UNCHANGED <<sharedVars, poolVars, slot, mrg, srv, pm, sweeper>>

\* 662-671
RfStore(c) ==
    /\ task[<<c, "rf">>].pc = "store"
    /\ LET t == task[<<c, "rf">>]
       IN apiResponseCache' = [apiResponseCache EXCEPT
              ![pluginSpecificCacheKey(call[c].keyword)] =
                  cachedResponse(t.results, clock, TRUE, t.oldCache.LastAccess,
                                 t.oldCache.AccessCount)]
    /\ task' = [task EXCEPT ![<<c, "rf">>].pc = "updCheck"]
    /\ UNCHANGED <<clock, cacheInitialized, mainCache, finalUpdateTracker, call,
                   resultChan, errorChan, doneChan, updaterLog, poolVars, slot,
                   mrg, srv, pm, sweeper>>


(***************************************************************************)
(* The select of AsyncSearch (base_async.go 350-391).  The caller is       *)
(* parked on the three cases; the first event wakes it.  The timer is      *)
(* created by the select itself, so it fires only while both channels are  *)
(* still empty.                                                            *)
(***************************************************************************)
\* 351-353
ReturnResult(c) ==
    /\ call[c].pc = "select"
    /\ resultChan[c] # <<>>
    /\ resultChan' = [resultChan EXCEPT ![c] = <<>>]
    /\ doneChan' = [doneChan EXCEPT ![c] = @ + 1]
    /\ call' = [call EXCEPT ![c] = Returned(c, "result", resultChan[c][1], FALSE)]
    /\ task' = [task EXCEPT ![<<c, "wb">>] = WriteBackTask]
    /\ UNCHANGED <<clock, cacheInitialized, apiResponseCache, mainCache,
                   finalUpdateTracker, errorChan, updaterLog, poolVars, slot,
                   mrg, srv, pm, sweeper>>

\* Faulty variant of the error case: the caller returns the error and leaves
\* doneChan open.
ReturnErrorLeavesDoneOpen(c) ==
    /\ call[c].pc = "select"
    /\ errorChan[c] # <<>>
    /\ errorChan' = [errorChan EXCEPT ![c] = <<>>]
    /\ call' = [call EXCEPT ![c] = Returned(c, "error", <<>>, TRUE)]
    /\ task' = [task EXCEPT ![<<c, "wb">>] = WriteBackTask]
    /\ UNCHANGED <<clock, cacheInitialized, apiResponseCache, mainCache,
                   finalUpdateTracker, resultChan, doneChan, updaterLog, poolVars,
                   slot, mrg, srv, pm, sweeper>>

\* 354-356
ReturnError(c) ==
    /\ call[c].pc = "select"
    /\ errorChan[c] # <<>>
    /\ errorChan' = [errorChan EXCEPT ![c] = <<>>]
    /\ doneChan' = [doneChan EXCEPT ![c] = @ + 1]
    /\ call' = [call EXCEPT ![c] = Returned(c, "error", <<>>, TRUE)]
    /\ task' = [task EXCEPT ![<<c, "wb">>] = WriteBackTask]
    /\ UNCHANGED <<clock, cacheInitialized, apiResponseCache, mainCache,
                   finalUpdateTracker, resultChan, updaterLog, poolVars, slot,
                   mrg, srv, pm, sweeper>>

\* 357-363: the response budget expires; the closer goroutine is started
TimerFire(c) ==
    /\ call[c].pc = "select"
    /\ resultChan[c] = <<>>
    /\ errorChan[c] = <<>>
    /\ call' = [call EXCEPT ![c].pc = "timeout"]
    /\ task' = [task EXCEPT ![<<c, "closer">>] = Spawn("pending")]
    /\ UNCHANGED <<clock, cacheInitialized, apiResponseCache, mainCache,
                   finalUpdateTracker, resultChan, errorChan, doneChan, updaterLog,
                   poolVars, slot, mrg, srv, pm, sweeper>>

\* 361-363
CloseDone(c) ==
    /\ task[<<c, "closer">>].pc = "pending"
    /\ doneChan' = [doneChan EXCEPT ![c] = @ + 1]
    /\ task' = [task EXCEPT ![<<c, "closer">>].pc = "done"]
    /\ UNCHANGED <<clock, cacheInitialized, apiResponseCache, mainCache,
                   finalUpdateTracker, call, resultChan, errorChan, updaterLog,
                   poolVars, slot, mrg, srv, pm, sweeper>>

\* 366-375: a partial entry with results is served, with its access recorded
TimeoutLoad(c) ==
    /\ call[c].pc = "timeout"
    /\ LET key == pluginSpecificCacheKey(call[c].keyword)
           e == apiResponseCache[key]
       IN IF e.present /\ Len(e.Results) > 0
          THEN /\ apiResponseCache' = recordCacheAccess(apiResponseCache, key, clock)
               /\ call' = [call EXCEPT ![c] =
                     Returned(c, "timeoutPartial", e.Results, FALSE)]
               /\ task' = [task EXCEPT ![<<c, "wb">>] = WriteBackTask]
          ELSE /\ call' = [call EXCEPT ![c].pc = "timeoutStore"]
               /\ UNCHANGED <<apiResponseCache, task>>
    /\ UNCHANGED <<clock, cacheInitialized, mainCache, finalUpdateTracker, resultChan,
                   errorChan, doneChan, updaterLog, poolVars, slot, mrg, srv, pm, sweeper>>

\* Faulty variant of the end of the timeout branch: the caller stores the
\* placeholder only once its background task has left searchFn.
TimeoutStoreAwaitsSearch(c) ==
    /\ call[c].pc = "timeoutStore"
    /\ task[<<c, "bg">>].pc \notin {"acquire", "search"}
    /\ apiResponseCache' = [apiResponseCache EXCEPT
           ![pluginSpecificCacheKey(call[c].keyword)] =
               [present |-> TRUE, Results |-> <<>>, Timestamp |-> call[c].now,
                Complete |-> FALSE, LastAccess |-> call[c].now, AccessCount |-> 1]]
    /\ call' = [call EXCEPT ![c] = Returned(c, "timeout", <<>>, FALSE)]
    /\ task' = [task EXCEPT ![<<c, "wb">>] = WriteBackTask]
    /\ UNCHANGED <<clock, cacheInitialized, mainCache, finalUpdateTracker, resultChan,
                   errorChan, doneChan, updaterLog, poolVars, slot, mrg, srv, pm, sweeper>>

\* 378-390: the placeholder is stored; updateMainCacheWithFinal(key, {}, false)
\* returns at its empty-results guard (part_001 26-28) without calling the updater
TimeoutStore(c) ==
    /\ call[c].pc = "timeoutStore"
    /\ apiResponseCache' = [apiResponseCache EXCEPT
           ![pluginSpecificCacheKey(call[c].keyword)] =
               cachedResponse(<<>>, call[c].now, FALSE, call[c].now, 1)]
    /\ updaterLog' =
           IF updateSkipped(GeneratePluginCacheKey(call[c].keyword), <<>>)
           THEN updaterLog
           ELSE updaterLog \cup
                    {[by |-> <<c, "caller">>,
                      key |-> GeneratePluginCacheKey(call[c].keyword),
                      results |-> <<>>, isFinal |-> FALSE,
                      keyword |-> currentKeyword]}
    /\ call' = [call EXCEPT ![c] = Returned(c, "timeout", <<>>, FALSE)]
    /\ task' = [task EXCEPT ![<<c, "wb">>] = WriteBackTask]
    /\ UNCHANGED <<clock, cacheInitialized, mainCache, finalUpdateTracker, resultChan,
                   errorChan, doneChan, poolVars, slot, mrg, srv, pm, sweeper>>

\* search_service.go 1031-1048: the aggregate is stored under the query's key
WriteBack(c) ==
    /\ task[<<c, "wb">>].pc = "pending"
    /\ mainCache' = [mainCache EXCEPT
           ![GeneratePluginCacheKey(call[c].keyword)] = Data(call[c].results)]
    /\ task' = [task EXCEPT ![<<c, "wb">>].pc = "done"]
    /\ UNCHANGED <<clock, cacheInitialized, apiResponseCache, finalUpdateTracker,
                   call, resultChan, errorChan, doneChan, updaterLog, poolVars, slot,
                   mrg, srv, pm, sweeper>>


(***************************************************************************)
(* The engine: queries against one plugin.                                 *)
(***************************************************************************)
MaxPoolProcs == 4
PoolProcs == 1..MaxPoolProcs
SlotIdle == [w \in PoolProcs |-> "idle"]
MrgIdle == [stage |-> "none"]
SrvIdle == [stage |-> "none"]

\* part_002 12-15: the names in the global registry; pa implements Initialize
globalRegistry == {"pa", "PB"}
Initializable == {"pa"}
NoRegistration == [op |-> "none"]

\* manager.go 17-22
NewPluginManager ==
    [plugins |-> <<>>, initialized |-> [p \in globalRegistry |-> 0],
     calls |-> 0, last |-> NoRegistration]

Init ==
    /\ EngineInit
    /\ PoolInit
    /\ slot = SlotIdle
    /\ mrg = MrgIdle
    /\ srv = SrvIdle
    /\ pm = NewPluginManager
    /\ sweeper = SweeperIdle

\* (results, err) of one searchFn execution
SearchReturns ==
    {[results |-> o, err |-> FALSE] : o \in SearchOutputs}
        \cup {[results |-> <<>>, err |-> TRUE]}

Next ==
    \/ Tick
    \/ \E c \in Calls, keyword \in Keywords, forceRefresh \in BOOLEAN :
           StartSearch(c, keyword, forceRefresh)
    \/ \E c \in Calls : AsyncDispatch(c)
    \/ \E c \in Calls : BgAcquire(c)
    \/ \E c \in Calls, out \in SearchReturns : BgInlineSearch(c, out)
    \/ \E c \in Calls : BgInlineStore(c)
    \/ \E c \in Calls, out \in SearchReturns : BgPooledSearch(c, out)
    \/ \E c \in Calls : BgLateLoad(c)
    \/ \E c \in Calls : BgLateStore(c)
    \/ \E c \in Calls : BgEarlyLoad(c)
    \/ \E c \in Calls : BgEarlyStore(c)
    \/ \E t \in Updaters : UpdCheck(t)
    \/ \E t \in Updaters : markFinalCacheUpdated(t)
    \/ \E t \in Updaters : UpdInvoke(t)
    \/ \E t \in Updaters : Release(t)
    \/ \E c \in Calls : RfAcquire(c)
    \/ \E c \in Calls, out \in SearchReturns : RfSearch(c, out)
    \/ \E c \in Calls : RfStore(c)
    \/ \E c \in Calls : ReturnResult(c)
    \/ \E c \in Calls : ReturnError(c)
    \/ \E c \in Calls : TimerFire(c)
    \/ \E c \in Calls : CloseDone(c)
    \/ \E c \in Calls : TimeoutLoad(c)
    \/ \E c \in Calls : TimeoutStore(c)
    \/ \E c \in Calls : WriteBack(c)

Spec == Init /\ [][Next]_vars


(***************************************************************************)
(* The worker pool, one step per access to the channel or the counter      *)
(* (async_infrastructure.go 137-163).  A process acquires, holds, releases *)
(* and starts over.                                                        *)
(***************************************************************************)
\* 145-147: atomic.LoadInt32(&backgroundTasksCount) >= maxTasks
PoolLoad(w) ==
    /\ slot[w] = "idle"
    /\ slot' = [slot EXCEPT ![w] =
           IF backgroundTasksCount >= MaxBackgroundTasks THEN "idle" ELSE "checked"]
    /\ UNCHANGED <<sharedVars, task, poolVars, mrg, srv, pm, sweeper>>

\* 150-156: the non-blocking send on the semaphore channel
PoolSend(w) ==
    /\ slot[w] = "checked"
    /\ IF backgroundWorkerPool < MaxBackgroundWorkers
       THEN /\ backgroundWorkerPool' = backgroundWorkerPool + 1
            /\ slot' = [slot EXCEPT ![w] = "sent"]
       ELSE /\ slot' = [slot EXCEPT ![w] = "idle"]
            /\ UNCHANGED backgroundWorkerPool
    /\ UNCHANGED <<sharedVars, task, backgroundTasksCount, mrg, srv, pm, sweeper>>

\* 152-153: atomic.AddInt32(&backgroundTasksCount, 1); return true
PoolAdd(w) ==
    /\ slot[w] = "sent"
    /\ backgroundTasksCount' = backgroundTasksCount + 1
    /\ slot' = [slot EXCEPT ![w] = "holding"]
    /\ UNCHANGED <<sharedVars, task, backgroundWorkerPool, mrg, srv, pm, sweeper>>

\* 161: <-backgroundWorkerPool
PoolReceive(w) ==
    /\ slot[w] = "holding"
    /\ backgroundWorkerPool > 0
    /\ backgroundWorkerPool' = backgroundWorkerPool - 1
    /\ slot' = [slot EXCEPT ![w] = "received"]
    /\ UNCHANGED <<sharedVars, task, backgroundTasksCount, mrg, srv, pm, sweeper>>

\* 162: atomic.AddInt32(&backgroundTasksCount, -1)
PoolSub(w) ==
    /\ slot[w] = "received"
    /\ backgroundTasksCount' = backgroundTasksCount - 1
    /\ slot' = [slot EXCEPT ![w] = "idle"]
    /\ UNCHANGED <<sharedVars, task, backgroundWorkerPool, mrg, srv, pm, sweeper>>

PoolNext ==
    \/ \E w \in PoolProcs : PoolLoad(w)
    \/ \E w \in PoolProcs : PoolSend(w)
    \/ \E w \in PoolProcs : PoolAdd(w)
    \/ \E w \in PoolProcs : PoolReceive(w)
    \/ \E w \in PoolProcs : PoolSub(w)

PoolSpecInit == Init /\ cacheInitialized
SpecPool == PoolSpecInit /\ [][PoolNext]_vars


(***************************************************************************)
(* mergeSearchResults(existing, newResults) of the merge file (part_000):  *)
(* a map keyed by generateResultKey, the better of two results under one   *)
(* key, then the values of the map sorted by Datetime, newest first.       *)
(***************************************************************************)
\* part_000 66-75
generateResultKey(result) ==
    IF result.UniqueID # "" THEN result.UniqueID
    ELSE IF result.MessageID # "" THEN result.MessageID
    ELSE <<"title", result.Title, result.Channel>>

\* part_000 90-122
calculateCompletenessScore(result) ==
    (IF result.UniqueID # "" THEN 10 ELSE 0)
    + (IF Len(result.Links) > 0 THEN 5 + Len(result.Links) ELSE 0)
    + (IF result.Content # "" THEN 3 ELSE 0)
    + (Len(result.Title) \div 10)
    + (IF result.Channel # "" THEN 2 ELSE 0)
    + Len(result.Tags)

\* part_000 78-87
selectBetterResult(existing, new) ==
    IF calculateCompletenessScore(new) > calculateCompletenessScore(existing)
    THEN new
    ELSE existing

Put(m, k, v) == [x \in DOMAIN m \cup {k} |-> IF x = k THEN v ELSE m[x]]
EmptyMap == [x \in {} |-> RA1]

\* part_000 34-37: existing results overwrite one another
RECURSIVE addExisting(_, _)
addExisting(resultMap, existing) ==
    IF existing = <<>> THEN resultMap
    ELSE addExisting(Put(resultMap, generateResultKey(Head(existing)), Head(existing)),
                     Tail(existing))

\* part_000 40-49: a new result replaces the stored one only when it is better
RECURSIVE addNew(_, _)
addNew(resultMap, newResults) ==
    IF newResults = <<>> THEN resultMap
    ELSE LET r == Head(newResults)
             key == generateResultKey(r)
         IN addNew(Put(resultMap, key,
                       IF key \in DOMAIN resultMap
                       THEN selectBetterResult(resultMap[key], r)
                       ELSE r),
                   Tail(newResults))

mergedMap(existing, newResults) == addNew(addExisting(EmptyMap, existing), newResults)

\* part_000 52-60: the map is ranged over in any order and sort.Slice is not
\* stable, so every arrangement with no later Datetime after an earlier one
\* is a possible outcome
SortedByDatetime(s) ==
    \A i, j \in 1..Len(s) : i < j => ~(s[j].Datetime > s[i].Datetime)
Arrangements(m) ==
    { s \in [1..Cardinality(DOMAIN m) -> { m[k] : k \in DOMAIN m }] :
        /\ \A k \in DOMAIN m : \E i \in 1..Len(s) : s[i] = m[k]
        /\ SortedByDatetime(s) }
mergeSearchResults(existing, newResults) == Arrangements(mergedMap(existing, newResults))

(***************************************************************************)
(* Two result sets A and B applied to an empty entry in both orders.       *)
(***************************************************************************)
MaxMergeLen == 2
MA1 == Result("p-a", "first", 1, <<"u1">>, "", "", <<>>)
MA2 == Result("p-a", "second", 2, <<"u1">>, "", "", <<>>)
MA3 == Result("p-a", "third", 1, <<"u1", "u3">>, "c", "", <<>>)
MB1 == Result("p-b", "other", 1, <<"u2">>, "", "", <<>>)
MergeItems == {MA1, MA2, MA3, MB1}
MergeInputs ==
    UNION { [1..n -> MergeItems] : n \in 0..MaxMergeLen }

MergeInit ==
    /\ EngineInit
    /\ cacheInitialized
    /\ PoolInit
    /\ slot = SlotIdle
    /\ srv = SrvIdle
    /\ pm = NewPluginManager
    /\ sweeper = SweeperIdle
    /\ \E a, b \in MergeInputs :
           mrg = [stage |-> "input", A |-> a, B |-> b, AB |-> <<>>, BA |-> <<>>]

\* the entry after the update with A, then the update with B
ApplyAB ==
    /\ mrg.stage = "input"
    /\ \E first \in mergeSearchResults(<<>>, mrg.A) :
         \E second \in mergeSearchResults(first, mrg.B) :
           mrg' = [mrg EXCEPT !.stage = "AB", !.AB = second]
    /\ UNCHANGED <<sharedVars, task, poolVars, slot, srv, pm, sweeper>>

\* the entry after the update with B, then the update with A
ApplyBA ==
    /\ mrg.stage = "AB"
    /\ \E first \in mergeSearchResults(<<>>, mrg.B) :
         \E second \in mergeSearchResults(first, mrg.A) :
           mrg' = [mrg EXCEPT !.stage = "done", !.BA = second]
    /\ UNCHANGED <<sharedVars, task, poolVars, slot, srv, pm, sweeper>>

MergeNext == ApplyAB \/ ApplyBA

SpecMerge == MergeInit /\ [][MergeNext]_vars


(***************************************************************************)
(* Properties of AsyncSearch.                                              *)
(***************************************************************************)
MainKey(c) == GeneratePluginCacheKey(call[c].keyword)
PluginEntry(c) == apiResponseCache[pluginSpecificCacheKey(call[c].keyword)]
TimedOut(c) == call[c].pc = "done" /\ call[c].via \in {"timeout", "timeoutPartial"}
Returns(c) == call[c].pc # "done" /\ call'[c].pc = "done"

C1_Outcome(c) ==
    /\ doneChan[c] <= 1
    /\ call[c].pc = "done" /\ call[c].via = "result" =>
           ~call[c].err /\ doneChan[c] = 1
    /\ call[c].pc = "done" /\ call[c].via = "error" =>
           call[c].err /\ call[c].results = <<>> /\ doneChan[c] = 1
    /\ TimedOut(c) =>
           /\ ~call[c].err
           /\ task[<<c, "closer">>].pc \in {"pending", "done"}
           /\ task[<<c, "closer">>].pc = "done" <=> doneChan[c] = 1
C1_Step(c) ==
    /\ call[c].pc = "done" => call'[c] = call[c]
    /\ Returns(c) /\ call'[c].via = "result" =>
           /\ call[c].pc = "select" /\ resultChan[c] # <<>>
           /\ call'[c].results = resultChan[c][1]
    /\ Returns(c) /\ call'[c].via = "error" =>
           call[c].pc = "select" /\ errorChan[c] # <<>>
    /\ call[c].pc = "select" /\ call'[c].pc = "timeout" =>
           resultChan[c] = <<>> /\ errorChan[c] = <<>>
    /\ Returns(c) /\ call'[c].via \in {"timeout", "timeoutPartial"} =>
           call[c].pc \in {"timeout", "timeoutStore"}

\* C1: a call of AsyncSearch that misses the per-plugin cache returns once and
\* never again; it returns the result that was in resultChan (with no error),
\* or the error that was in errorChan (with no results), or it takes the
\* timeout branch, which starts only while both channels are empty; doneChan
\* is never closed twice and is closed once the call returned on a channel
\* or the closer goroutine of the timeout branch has run.
C1_ReturnsOnceOnFirstEvent ==
    /\ [](\A c \in Calls : C1_Outcome(c))
    /\ [][\A c \in Calls : C1_Step(c)]_vars

\* a query that ended with the error of its search, and a later one that
\* timed out and whose doneChan was closed by the closer goroutine
C1_Witness ==
    \E c, d \in Calls :
        /\ call[c].pc = "done" /\ call[c].via = "error" /\ doneChan[c] = 1
        /\ call[d].pc = "done" /\ call[d].via = "timeout" /\ doneChan[d] = 1

\* C2: once the response budget has expired the caller's remaining steps are
\* enabled whatever the background task, the worker pool and the updater are
\* doing, and they end the call: the load of the entry leads to the return or
\* to the store of the placeholder, and that store returns.
C2_TimeoutPathNeverWaits ==
    \A c \in Calls :
        /\ call[c].pc = "timeout" =>
               ENABLED (TimeoutLoad(c) /\ call'[c].pc \in {"timeoutStore", "done"})
        /\ call[c].pc = "timeoutStore" =>
               ENABLED (TimeoutStore(c) /\ call'[c].pc = "done")

\* the call has returned from the timeout branch while searchFn is still
\* running in its background task
C2_Witness ==
    \E c \in Calls :
        /\ call[c].pc = "done" /\ call[c].via = "timeout"
        /\ task[<<c, "bg">>].pc = "search"

\* the background task of c found doneChan closed when searchFn returned (only
\* that path sets accessCount), has stored its entry and is in its final update
Publishing(c) ==
    /\ task[<<c, "bg">>].pc \in {"updCheck", "updMark", "updInvoke"}
    /\ task[<<c, "bg">>].accessCount > 0
    /\ task[<<c, "bg">>].results # <<>>
OnlyUser(c) == \A d \in Calls \ {c} : call[d].keyword # call[c].keyword

\* C3: when a call has timed out and its background search has returned
\* results R without error (no other query using the keyword), the per-plugin
\* entry is complete and contains R once the task has stored it, and the main
\* cache holds R once the task has invoked the updater with isFinal = true.
C3_LateResultReachesCaches ==
    \A c \in Calls :
        cacheInitialized /\ call[c].pc = "done" /\ call[c].via = "timeout"
                         /\ OnlyUser(c) =>
            /\ Publishing(c) =>
                   /\ PluginEntry(c).present /\ PluginEntry(c).Complete
                   /\ Range(task[<<c, "bg">>].results) \subseteq
                          Range(PluginEntry(c).Results)
            /\ \A u \in updaterLog :
                   u.by = <<c, "bg">> =>
                       /\ u.isFinal
                       /\ mainCache[MainKey(c)].present
                       /\ Range(u.results) \subseteq Range(mainCache[MainKey(c)].data)

IsPlaceholder(e) == e.present /\ e.Results = <<>> /\ ~e.Complete

\* C4 as stated: every return from the timeout branch carries an empty list
\* and no error, and leaves an empty, incomplete placeholder as the entry.
C4_TimeoutReturnsEmpty ==
    [][\A c \in Calls :
          Returns(c) /\ call[c].pc \in {"timeout", "timeoutStore"} =>
              /\ call'[c].results = <<>> /\ ~call'[c].err
              /\ IsPlaceholder(
                     apiResponseCache'[pluginSpecificCacheKey(call[c].keyword)])]_vars

\* C4, amended: the timeout branch returns no error; when the entry has
\* results at that moment it returns them and only records the access;
\* otherwise it returns an empty list and has stored an empty placeholder
\* with Complete = false as the entry.
C4_TimeoutReturnsEmptyOrPartial ==
    [][\A c \in Calls :
          Returns(c) /\ call[c].pc \in {"timeout", "timeoutStore"} =>
              /\ ~call'[c].err
              /\ IF call[c].pc = "timeout"
                 THEN /\ PluginEntry(c).Results # <<>>
                      /\ call'[c].results = PluginEntry(c).Results
                      /\ apiResponseCache'[pluginSpecificCacheKey(call[c].keyword)]
                             .Results = PluginEntry(c).Results
                 ELSE /\ call'[c].results = <<>>
                      /\ IsPlaceholder(
                             apiResponseCache'[pluginSpecificCacheKey(call[c].keyword)])]_vars

\* one call returned the empty list over its placeholder, another returned
\* the results it found in the entry when its budget expired
C4_Witness ==
    \E c, d \in Calls :
        /\ call[c].pc = "done" /\ call[c].via = "timeout"
        /\ call[d].pc = "done" /\ call[d].via = "timeoutPartial"
        /\ call[d].results # <<>>

\* C5: once a call has returned from the timeout branch with its placeholder
\* (the updater being injected and the main key non-empty), the updater has
\* been invoked for the main key with an empty list and isFinal = false.
C5_TimeoutPromotesEmpty ==
    \A c \in Calls :
        cacheInitialized /\ call[c].pc = "done" /\ call[c].via = "timeout" =>
            \E u \in updaterLog :
                u.key = MainKey(c) /\ u.results = <<>> /\ ~u.isFinal

\* the background and refresh tasks whose searchFn is running for a keyword
Searching(k) ==
    { t \in Updaters : task[t].pc = "search" /\ call[t[1]].keyword = k }

\* C6: for every keyword of the plugin at most one background or refresh task
\* is executing searchFn.
C6_OneSearchInFlight ==
    \A k \in Keywords : Cardinality(Searching(k)) <= 1

\* C7: the entry of the main cache under a key holds a result for every
\* UniqueID that an updater invocation or a finished write-back stored under
\* that key.
C7_MainCacheKeepsContributions ==
    /\ \A u \in updaterLog :
           /\ mainCache[u.key].present
           /\ IDs(u.results) \subseteq IDs(mainCache[u.key].data)
    /\ \A c \in Calls :
           task[<<c, "wb">>].pc = "done" =>
               /\ mainCache[MainKey(c)].present
               /\ IDs(call[c].results) \subseteq IDs(mainCache[MainKey(c)].data)

ByID(s) == { <<s[i].UniqueID, s[i]>> : i \in 1..Len(s) }

\* C8: the entry after merging A and then B holds the same result for every
\* UniqueID as the entry after merging B and then A, and each of them holds
\* exactly one result for every UniqueID of A and B.
C8_MergeOrderIndependent ==
    mrg.stage = "done" =>
        /\ ByID(mrg.AB) = ByID(mrg.BA)
        /\ IDs(mrg.AB) = IDs(mrg.A) \cup IDs(mrg.B)
        /\ Len(mrg.AB) = Cardinality(IDs(mrg.AB))
        /\ Len(mrg.BA) = Cardinality(IDs(mrg.BA))

\* C9: no two invocations of the updater carry the same key, the same
\* fingerprint (length, first and last UniqueID) and the same isFinal.
C9_UpdaterInvokedOncePerFingerprint ==
    \A u, v \in updaterLog :
        u.key = v.key /\ dataHash(u.results) = dataHash(v.results)
                      /\ u.isFinal = v.isFinal
            => u = v

\* C10: backgroundTasksCount never exceeds the configured maximum, and an
\* acquire that finds the counter at the maximum or the semaphore full
\* returns false.
C10_TaskCountBounded ==
    /\ [](backgroundTasksCount <= MaxBackgroundTasks)
    /\ [][\A w \in PoolProcs :
            /\ slot[w] = "idle" /\ backgroundTasksCount >= MaxBackgroundTasks
                   => slot'[w] # "checked"
            /\ slot[w] = "checked" /\ backgroundWorkerPool >= MaxBackgroundWorkers
                   => slot'[w] # "sent"]_vars


(***************************************************************************)
(* Saturation of the worker pool inside AsyncSearch.                       *)
(***************************************************************************)
Bg(c) == task[<<c, "bg">>]
Inline(c) == Bg(c).pc \in {"search", "inlineStore"} /\ ~Bg(c).pooled

C11_Step(c) ==
    \* a refused slot leads to the search, in-line, and to no message
    /\ Bg(c).pc = "acquire" /\ ~acquireWorkerSlot /\ Bg(c)' # Bg(c) =>
           /\ Bg(c)'.pc = "search" /\ ~Bg(c)'.pooled
           /\ errorChan'[c] = errorChan[c] /\ resultChan'[c] = resultChan[c]
    \* an error reaches the caller only from the step at which searchFn returns
    /\ errorChan[c] = <<>> /\ errorChan'[c] # <<>> => Bg(c).pc = "search"
    \* a successful in-line search goes on to store its results
    /\ Inline(c) /\ Bg(c).pc = "search" /\ Bg(c)' # Bg(c) /\ errorChan'[c] = <<>> =>
           Bg(c)'.pc = "inlineStore"
    \* the store writes a complete entry and the final update follows
    /\ Bg(c).pc = "inlineStore" /\ Bg(c)' # Bg(c) =>
           /\ PluginEntry(c)'.Complete
           /\ PluginEntry(c)'.Results = Bg(c).results
           /\ Bg(c)'.pc = "updCheck" /\ Bg(c)'.results = Bg(c).results

\* C11: when acquireWorkerSlot is refused in the background task of
\* AsyncSearch the search still runs, in-line; no error is sent to the caller
\* except the error searchFn itself returns; when the search succeeds the
\* per-plugin entry is stored with Complete = true and its results, and
\* updateMainCacheWithFinal(key, results, true) is the next step of the task.
C11_SaturationRunsInline ==
    [][\A c \in Calls : C11_Step(c)]_vars

\* a query answered by an in-line search while another task held the only
\* worker slot: the entry is complete and the final update is under way
C11_Witness ==
    \E c \in Calls :
        /\ Bg(c).pc = "updCheck" /\ ~Bg(c).pooled /\ Bg(c).results # <<>>
        /\ backgroundWorkerPool = MaxBackgroundWorkers
        /\ call[c].pc = "done" /\ call[c].via = "result" /\ ~call[c].err
        /\ PluginEntry(c).Complete /\ PluginEntry(c).Results = Bg(c).results


(***************************************************************************)
(* SearchService.Search, first half: the normalisation of the plugins      *)
(* argument and searchPlugins (cache lookup, selection of the plugins,     *)
(* one task per plugin, aggregation).  A request is drawn in the initial   *)
(* state; srv carries it through the stages of the call.                   *)
(***************************************************************************)
MaxPluginsLen == 3

\* the names the plugin manager returns from GetPlugins, in its order
AllPlugins == <<"pa", "pb">>
\* strings.ToLower on the names of the model
ToLower(name) ==
    IF name = "PA" THEN "pa" ELSE IF name = "PB" THEN "pb" ELSE name
RequestNames == {"", "pa", "PA", "pb"}

\* a []string argument: nil, or a list (possibly empty)
NilList == [isNil |-> TRUE, list |-> <<>>]
List(l) == [isNil |-> FALSE, list |-> l]
PluginArgs ==
    {NilList} \cup { List(l) : l \in UNION { [1..n -> RequestNames] : n \in 0..MaxPluginsLen } }
SourceTypes == {"", "all", "plugin", "tg"}

Lowered(l) == [i \in 1..Len(l) |-> ToLower(l[i])]
NonEmpty(l) == SelectSeq(l, LAMBDA n : n # "")

\* Search 114-117
normalizeSourceType(sourceType) == IF sourceType = "" THEN "all" ELSE sourceType

\* Search 141-176: same number of requested names as registered plugins, and
\* every registered name among the requested ones
includesAllPlugins(plugins) ==
    LET allPluginNames == Lowered(AllPlugins)
        requestedPlugins == Lowered(NonEmpty(plugins.list))
    IN /\ Len(requestedPlugins) = Len(allPluginNames)
       /\ Range(allPluginNames) \subseteq Range(requestedPlugins)

\* Search 119-180
normalizePlugins(sourceType, plugins) ==
    IF sourceType = "tg" THEN NilList
    ELSE IF sourceType \in {"all", "plugin"}
    THEN IF plugins.isNil \/ Len(plugins.list) = 0 THEN NilList
         ELSE IF NonEmpty(plugins.list) = <<>> THEN NilList
         ELSE IF includesAllPlugins(plugins) THEN NilList
         ELSE plugins
    ELSE plugins

\* Faulty variant of the selection: without a plugins argument no plugin runs.
availableOnlyWhenNamed(plugins) ==
    IF ~plugins.isNil /\ NonEmpty(plugins.list) # <<>>
    THEN SelectSeq(AllPlugins,
                   LAMBDA p : ToLower(p) \in Range(Lowered(NonEmpty(plugins.list))))
    ELSE <<>>

\* searchPlugins 938-975: the registered plugins named in the argument, or all
\* of them when the argument is nil, empty or holds only empty strings
availablePlugins(plugins) ==
    IF ~plugins.isNil /\ NonEmpty(plugins.list) # <<>>
    THEN SelectSeq(AllPlugins,
                   LAMBDA p : ToLower(p) \in Range(Lowered(NonEmpty(plugins.list))))
    ELSE AllPlugins

\* what a task of the pool yields: nil (the plugin failed or ran out of time)
\* or the list the plugin returned
NilOutcome == [nil |-> TRUE, results |-> <<>>]
Outcome(results) == [nil |-> FALSE, results |-> results]
TaskOutcomes == {NilOutcome} \cup { Outcome(l) : l \in {<<>>, <<RA1>>, <<RB>>} }

\* Faulty variant of the aggregation: a nil slot ends the loop.
RECURSIVE aggregateUntilNil(_)
aggregateUntilNil(outcomes) ==
    IF outcomes = <<>> THEN <<>>
    ELSE IF Head(outcomes).nil THEN <<>>
    ELSE Head(outcomes).results \o aggregateUntilNil(Tail(outcomes))

\* searchPlugins 1020-1027: the non-nil slots, appended in task order
RECURSIVE aggregate(_)
aggregate(outcomes) ==
    IF outcomes = <<>> THEN <<>>
    ELSE (IF Head(outcomes).nil THEN <<>> ELSE Head(outcomes).results)
             \o aggregate(Tail(outcomes))

\* what the main cache holds under the query's key: nothing, bytes that do not
\* deserialize, or a serialized list
CacheEntries ==
    {[kind |-> "none", data |-> <<>>], [kind |-> "corrupt", data |-> <<>>]}
        \cup { [kind |-> "ok", data |-> l] : l \in {<<>>, <<RA1>>, <<RA2, RB>>} }

\* Faulty variant of the lookup: an empty cached list counts as a miss.
cacheHitUnlessEmpty(forceRefresh, cacheEnabled, entry) ==
    ~forceRefresh /\ cacheEnabled /\ entry.kind = "ok" /\ entry.data # <<>>

\* searchPlugins 906-936: the lookup is made and answers
cacheHit(forceRefresh, cacheEnabled, entry) ==
    ~forceRefresh /\ cacheEnabled /\ entry.kind = "ok"

Request(sourceType, plugins) ==
    [stage |-> "request", sourceType |-> sourceType, request |-> plugins,
     plugins |-> plugins, forceRefresh |-> FALSE, cacheEnabled |-> FALSE,
     entry |-> [kind |-> "none", data |-> <<>>], available |-> <<>>,
     outcomes |-> <<>>, results |-> <<>>, err |-> FALSE, via |-> "none"]

SearchInit ==
    /\ EngineInit
    /\ cacheInitialized
    /\ PoolInit
    /\ slot = SlotIdle
    /\ mrg = MrgIdle
    /\ pm = NewPluginManager
    /\ sweeper = SweeperIdle
    /\ \E sourceType \in SourceTypes, plugins \in PluginArgs :
           srv = Request(sourceType, plugins)

otherVars == <<sharedVars, task, poolVars, slot, mrg, pm, sweeper>>

\* Search 113-180
NormalizeRequest ==
    /\ srv.stage = "request"
    /\ srv' = [srv EXCEPT
           !.stage = "normalized",
           !.sourceType = normalizeSourceType(@),
           !.plugins = normalizePlugins(normalizeSourceType(srv.sourceType), @)]
    /\ UNCHANGED otherVars

\* Search 203: searchPlugins is not called for a TG-only request
SkipPlugins ==
    /\ srv.stage = "normalized"
    /\ srv.sourceType \notin {"all", "plugin"}
    /\ srv' = [srv EXCEPT !.stage = "returned"]
    /\ UNCHANGED otherVars

\* searchPlugins 902-936
LookupCache(forceRefresh, cacheEnabled, entry) ==
    /\ srv.stage = "normalized"
    /\ srv.sourceType \in {"all", "plugin"}
    /\ srv' = [srv EXCEPT
           !.forceRefresh = forceRefresh, !.cacheEnabled = cacheEnabled,
           !.entry = entry,
           !.stage = IF cacheHit(forceRefresh, cacheEnabled, entry)
                     THEN "returned" ELSE "select",
           !.via = IF cacheHit(forceRefresh, cacheEnabled, entry)
                   THEN "cache" ELSE @,
           !.results = IF cacheHit(forceRefresh, cacheEnabled, entry)
                       THEN entry.data ELSE @]
    /\ UNCHANGED otherVars

\* searchPlugins 938-975
SelectPlugins ==
    /\ srv.stage = "select"
    /\ srv' = [srv EXCEPT !.stage = "tasks",
                          !.available = availablePlugins(srv.plugins)]
    /\ UNCHANGED otherVars

\* searchPlugins 985-1018: the task of the next plugin yields its slot
RunTask(out) ==
    /\ srv.stage = "tasks"
    /\ Len(srv.outcomes) < Len(srv.available)
    /\ srv' = [srv EXCEPT !.outcomes = Append(@, out)]
    /\ UNCHANGED otherVars

\* searchPlugins 1020-1051, Search 216-222
AggregateTasks ==
    /\ srv.stage = "tasks"
    /\ Len(srv.outcomes) = Len(srv.available)
    /\ srv' = [srv EXCEPT !.stage = "returned", !.via = "tasks",
                          !.results = aggregate(srv.outcomes), !.err = FALSE]
    /\ UNCHANGED otherVars

SearchNext ==
    \/ NormalizeRequest
    \/ SkipPlugins
    \/ \E forceRefresh, cacheEnabled \in BOOLEAN, entry \in CacheEntries :
           LookupCache(forceRefresh, cacheEnabled, entry)
    \/ SelectPlugins
    \/ \E out \in TaskOutcomes : RunTask(out)
    \/ AggregateTasks

SpecSearch == SearchInit /\ [][SearchNext]_vars

\* ---------------------------------------------------------------------------
\* C12 .. C15: the plugin half of Search
\* ---------------------------------------------------------------------------

SearchedPlugins == srv.stage = "returned" /\ srv.via = "tasks"

\* the slots with every failed task's nil replaced by an empty list
AsEmptyLists(outcomes) ==
    [i \in 1..Len(outcomes) |->
        IF outcomes[i].nil THEN <<>> ELSE outcomes[i].results]

RECURSIVE Concat(_)
Concat(lists) ==
    IF lists = <<>> THEN <<>> ELSE Head(lists) \o Concat(Tail(lists))

\* C12: when the tasks of some plugins fail (their slot is nil), the plugin
\* search still returns without an error, and what it returns is the other
\* plugins' lists, in task order, exactly as if each failed plugin had returned
\* an empty list.
C12_FailedPluginCountsAsEmpty ==
    SearchedPlugins =>
        /\ ~srv.err
        /\ srv.results = Concat(AsEmptyLists(srv.outcomes))

C12_Witness ==
    /\ SearchedPlugins
    /\ ~srv.err
    /\ Len(srv.outcomes) = 2
    /\ srv.outcomes[1].nil
    /\ srv.outcomes[2] = Outcome(<<RB>>)
    /\ srv.results = <<RB>>

LookedUp == srv.stage \in {"returned", "select", "tasks"} /\ srv.sourceType \in {"all", "plugin"}

EmptyListForPlugins ==
    srv.request = List(<<>>) /\ normalizeSourceType(srv.sourceType) = "plugin"

NamesFullSet(plugins) ==
    /\ ~plugins.isNil
    /\ Range(Lowered(NonEmpty(plugins.list))) = Range(Lowered(AllPlugins))

\* C15: every plugins list whose non-empty names, compared without case, make
\* up exactly the set of registered plugin names (repeats and empty strings
\* included) is normalized to nil for sourceType all or plugin.
C15_FullSetNormalizedToNil ==
    (/\ srv.stage # "request"
     /\ srv.stage # "none"
     /\ srv.sourceType \in {"all", "plugin"}
     /\ NamesFullSet(srv.request))
        => srv.plugins = NilList

(***************************************************************************)
(* The second half of Search (search_service.go 224-263): merge, rank,     *)
(* compose Results, group the links by type, count, project.               *)
(*                                                                         *)
(* A title is the sequence of its words, a URL the sequence of its parts   *)
(* (a host word, then path characters, a percent escape being one part).   *)
(* Datetime 0 is the zero time, 1 a time 400 days ago, 2 a time today.     *)
(* The Chinese priority keywords are written in pinyin.                    *)
(***************************************************************************)
LowerWord(w) ==
    IF w = "Complete" THEN "complete" ELSE IF w = "Film" THEN "film" ELSE w
LowerWords(ws) == [i \in 1..Len(ws) |-> LowerWord(ws[i])]
Contains(ws, w) == w \in Range(ws)
HasPrefix(s, prefix) ==
    Len(prefix) <= Len(s) /\ \A i \in 1..Len(prefix) : s[i] = prefix[i]

\* search_service.go 1482
priorityKeywords == <<"heji", "xilie", "quan", "wan", "zuixin", "fu", "complete">>

\* search_service.go 1541-1550
RECURSIVE keywordPriorityFrom(_, _)
keywordPriorityFrom(title, i) ==
    IF i > Len(priorityKeywords) THEN 0
    ELSE IF Contains(title, priorityKeywords[i])
         THEN (Len(priorityKeywords) - (i - 1)) * 70
         ELSE keywordPriorityFrom(title, i + 1)
getKeywordPriority(title) == keywordPriorityFrom(LowerWords(title), 1)

\* the registry of part_002 48-54 with the plugins' Priority() and
\* SkipServiceFilter()
Priority(name) == IF name = "pa" THEN 1 ELSE 3
SkipServiceFilter(name) == name = "pb"

\* strings.SplitN(UniqueID, "-", 2)[0] for the identifiers in use; "" when the
\* identifier has no "-"
pluginNameOf(id) ==
    CASE id \in {"pa-1", "pa-2"} -> "pa"
      [] id \in {"pb-1", "pb-2", "pb-3", "pb-4"} -> "pb"
      [] id \in {"p-a", "p-b"} -> "p"
      [] OTHER -> ""

\* search_service.go 1553-1565, part_000 242-253
getResultSource(result) ==
    IF result.Channel # "" THEN <<"tg", result.Channel>>
    ELSE IF pluginNameOf(result.UniqueID) # ""
         THEN <<"plugin", pluginNameOf(result.UniqueID)>>
         ELSE <<"unknown">>

\* search_service.go 1568-1602
getPluginLevelBySource(source) ==
    IF Len(source) # 2 THEN 3
    ELSE IF source[1] = "tg" THEN 3
    ELSE IF source[1] = "plugin"
         THEN (IF source[2] \in Range(AllPlugins) THEN Priority(source[2]) ELSE 3)
         ELSE 3

\* Faulty variant of the tier score: a first tier worth less than a keyword.
getPluginLevelScoreSmallGap(source) ==
    LET level == getPluginLevelBySource(source)
    IN CASE level = 1 -> 400
         [] level = 2 -> 200
         [] level = 4 -> 0 - 200
         [] OTHER -> 0

\* search_service.go 1605-1620
getPluginLevelScore(source) ==
    LET level == getPluginLevelBySource(source)
    IN CASE level = 1 -> 1000
         [] level = 2 -> 500
         [] level = 3 -> 0
         [] level = 4 -> 0 - 200
         [] OTHER -> 0

DaysOld(datetime) == IF datetime = 2 THEN 0 ELSE 400

\* search_service.go 1623-1648
calculateTimeScore(datetime) ==
    IF datetime = 0 THEN 0
    ELSE LET daysDiff == DaysOld(datetime)
         IN CASE daysDiff <= 1 -> 500
              [] daysDiff > 1 /\ daysDiff <= 3 -> 400
              [] daysDiff > 3 /\ daysDiff <= 7 -> 300
              [] daysDiff > 7 /\ daysDiff <= 30 -> 200
              [] daysDiff > 30 /\ daysDiff <= 90 -> 100
              [] daysDiff > 90 /\ daysDiff <= 365 -> 50
              [] OTHER -> 20

\* search_service.go 1504-1519
TotalScore(result) ==
    calculateTimeScore(result.Datetime) + getKeywordPriority(result.Title)
        + getPluginLevelScore(getResultSource(result))

Swap(s, i, j) ==
    [k \in 1..Len(s) |-> IF k = i THEN s[j] ELSE IF k = j THEN s[i] ELSE s[k]]

\* search_service.go 1527-1533: the inner and the outer loop of the exchange
RECURSIVE exchangeInner(_, _, _)
exchangeInner(scores, i, j) ==
    IF j > Len(scores) THEN scores
    ELSE exchangeInner(IF TotalScore(scores[i]) < TotalScore(scores[j])
                       THEN Swap(scores, i, j) ELSE scores,
                       i, j + 1)
RECURSIVE exchangeOuter(_, _)
exchangeOuter(scores, i) ==
    IF i >= Len(scores) THEN scores
    ELSE exchangeOuter(exchangeInner(scores, i, i + 1), i + 1)

\* search_service.go 1499-1538
sortResultsByTimeAndKeywords(results) == exchangeOuter(results, 1)

\* search_service.go 1062-1079: TG results overwrite one another, a plugin
\* result replaces a stored one only when its Datetime is later
RECURSIVE addTG(_, _)
addTG(resultMap, tgResults) ==
    IF tgResults = <<>> THEN resultMap
    ELSE addTG(Put(resultMap, Head(tgResults).UniqueID, Head(tgResults)),
               Tail(tgResults))
RECURSIVE addPlugin(_, _)
addPlugin(resultMap, pluginResults) ==
    IF pluginResults = <<>> THEN resultMap
    ELSE LET result == Head(pluginResults)
             id == result.UniqueID
         IN addPlugin(IF id \in DOMAIN resultMap
                         /\ ~(result.Datetime > resultMap[id].Datetime)
                      THEN resultMap
                      ELSE Put(resultMap, id, result),
                      Tail(pluginResults))

\* the values of a Go map in the orders a range over it can produce
AnyOrder(m) ==
    { s \in [1..Cardinality(DOMAIN m) -> { m[k] : k \in DOMAIN m }] :
        \A k \in DOMAIN m : \E i \in 1..Len(s) : s[i] = m[k] }

\* search_service.go 1055-1089
mergeTGAndPluginResults(tgResults, pluginResults) ==
    IF Len(tgResults) + Len(pluginResults) = 0 THEN {<<>>}
    ELSE AnyOrder(addPlugin(addTG(EmptyMap, tgResults), pluginResults))

\* search_service.go 233
keptInResults(result) ==
    result.Datetime # 0 \/ getKeywordPriority(result.Title) > 0

\* search_service.go 231-237
filterForResults(allResults) == SelectSeq(allResults, keptInResults)

\* model.Link; an absent WorkTitle is the empty title
Link(url, datetime) ==
    [URL |-> url, Password |-> "", Datetime |-> datetime, WorkTitle |-> <<>>]

\* net/url.QueryUnescape on one part: "%61" is the escape of "a", "+" stands
\* for a space, "%zz" is not an escape and makes the call fail
Unescape(part) ==
    IF part = "%61" THEN "a" ELSE IF part = "+" THEN " " ELSE part
InvalidEscape(part) == part = "%zz"

\* part_000 18-26
normalizeUrl(rawUrl) ==
    IF \E i \in 1..Len(rawUrl) : InvalidEscape(rawUrl[i]) THEN rawUrl
    ELSE [i \in 1..Len(rawUrl) |-> Unescape(rawUrl[i])]

\* part_000 310-338
determineLinkType(rawUrl) ==
    LET url == LowerWords(rawUrl)
    IN IF Contains(url, "quark") THEN "quark"
       ELSE IF Contains(url, "baidu") THEN "baidu"
       ELSE IF Contains(url, "xunlei") THEN "xunlei"
       ELSE IF Contains(url, "aliyundrive") \/ Contains(url, "alipan") THEN "aliyun"
       ELSE IF Contains(url, "uc.cn") THEN "uc"
       ELSE IF Contains(url, "123pan") \/ Contains(url, "123684") THEN "123"
       ELSE IF Contains(url, "115") THEN "115"
       ELSE IF Contains(url, "tianyi") THEN "tianyi"
       ELSE IF Contains(url, "caiyun.139") THEN "mobile"
       ELSE IF Contains(url, "pikpak") THEN "pikpak"
       ELSE IF HasPrefix(url, <<"magnet:">>) THEN "magnet"
       ELSE IF HasPrefix(url, <<"ed2k:">>) THEN "ed2k"
       ELSE "unknown"

(***************************************************************************)
(* Content is the sequence of its lines (it contains "\n" when it has two  *)
(* or more).  A line is the words before its first colon (all its words    *)
(* when no colon stands before its first URL), the kind of that colon      *)
(* (":" or "full" for the full-width one), and the URLs that               *)
(* `https?://[^\s"']+` finds in it.  Chinese words are written in pinyin:  *)
(* lianjie 链接, dizhi 地址, ziyuandizhi 资源地址, wangpan 网盘,           *)
(* wangpandizhi 网盘地址, kuake 夸克, kuakelianjie 夸克链接,               *)
(* mingcheng 名称, biaoti 标题, pianming 片名; "*" is an emoji.            *)
(***************************************************************************)
Line(before, colon, links) == [before |-> before, colon |-> colon, links |-> links]
IsBlank(line) == line.before = <<>> /\ line.colon = "" /\ line.links = <<>>
HasLinks(line) == line.links # <<>>
\* the text of a line as a title: its words, its colon, a word for each URL
TextOf(line) ==
    line.before \o (IF line.colon = "" THEN <<>> ELSE <<line.colon>>)
                \o [n \in 1..Len(line.links) |-> "http"]
EmptyTitleMap == [x \in {} |-> <<>>]

\* search_service.go 1359-1367
isLinkLine(line) ==
    \/ /\ line.colon = "full"
       /\ line.before \in {<<"lianjie">>, <<"dizhi">>, <<"ziyuandizhi">>,
                           <<"wangpan">>, <<"wangpandizhi">>}
    \/ line.colon = ":" /\ line.before = <<"lianjie">>

\* search_service.go 1389-1441
cloudDiskNames ==
    {"kuake", "kuakewangpan", "quark", "kuakeyunpan", "baidu", "baiduwangpan",
     "baiduyun", "bdwp", "bdpan", "xunlei", "xunleiwangpan", "xunleiyunpan",
     "115", "115wangpan", "115yunpan", "123", "123pan", "123wangpan",
     "123yunpan", "ali", "aliyun", "aliyunpan", "alipan", "aliwangpan",
     "tianyi", "tianyiyun", "tianyiyunpan", "tianyiwangpan", "uc", "ucwangpan",
     "ucyunpan", "yidong", "yidongyun", "yidongyunpan", "caiyun", "pikpak",
     "pikpakwangpan"}
isLinkPrefix(text) ==
    /\ Len(text) = 1
    /\ text[1] \in {"lianjie", "dizhi", "ziyuandizhi", "wangpan", "wangpandizhi"}
                       \cup cloudDiskNames

\* search_service.go 1444-1460: a leading name tag and the emoji are removed
cleanTitle(title) ==
    LET untagged == IF title # <<>> /\ Head(title) \in {"mingcheng:", "biaoti:", "pianming:"}
                    THEN Tail(title) ELSE title
    IN SelectSeq(untagged, LAMBDA w : w # "*")

\* search_service.go 1370-1386: the text before the first full-width colon,
\* else before the first colon, unless it holds "http" or is a link prefix
extractTitleFromLinkLine(line) ==
    IF line.colon \in {"full", ":"} /\ ~isLinkPrefix(line.before)
    THEN cleanTitle(line.before)
    ELSE <<>>

RECURSIVE PutAll(_, _, _)
PutAll(linkTitleMap, links, title) ==
    IF links = <<>> THEN linkTitleMap
    ELSE PutAll(Put(linkTitleMap, Head(links), title), Tail(links), title)

\* search_service.go 1132-1183, from line i on (lastTitleIndex starts at the
\* first line)
RECURSIVE firstPass(_, _, _)
firstPass(lines, i, st) ==
    IF i > Len(lines) THEN st
    ELSE LET line == lines[i]
             titleFromLine == extractTitleFromLinkLine(line)
             withLast == [st EXCEPT !.map = PutAll(@, line.links, st.lastTitle)]
             asTitle == [st EXCEPT !.lastTitle = cleanTitle(TextOf(line)),
                                   !.lastTitleIndex = i]
         IN firstPass(lines, i + 1,
                IF IsBlank(line) THEN st
                ELSE IF HasLinks(line)
                THEN IF isLinkLine(line) /\ st.lastTitle # <<>> THEN withLast
                     ELSE IF ~isLinkLine(line)
                     THEN IF titleFromLine # <<>>
                          THEN [st EXCEPT !.map = PutAll(@, line.links, titleFromLine)]
                          ELSE IF st.lastTitle # <<>> THEN withLast ELSE st
                     ELSE st
                ELSE IF i < Len(lines)
                THEN IF isLinkLine(lines[i + 1]) \/ HasLinks(lines[i + 1])
                     THEN asTitle ELSE st
                ELSE asTitle)

\* search_service.go 1202-1215: the nearest line above i that is the last
\* title line or stands without a link before a line with one
RECURSIVE nearestTitle(_, _, _)
nearestTitle(lines, j, lastTitleIndex) ==
    IF j < 1 THEN <<>>
    ELSE IF (j = lastTitleIndex \/ (HasLinks(lines[j + 1]) /\ ~HasLinks(lines[j])))
            /\ cleanTitle(TextOf(lines[j])) # <<>>
    THEN cleanTitle(TextOf(lines[j]))
    ELSE nearestTitle(lines, j - 1, lastTitleIndex)

RECURSIVE titleUnmatched(_, _, _, _, _)
titleUnmatched(lines, i, links, lastTitleIndex, linkTitleMap) ==
    IF links = <<>> THEN linkTitleMap
    ELSE LET title == nearestTitle(lines, i - 1, lastTitleIndex)
         IN titleUnmatched(lines, i, Tail(links), lastTitleIndex,
                IF Head(links) \notin DOMAIN linkTitleMap /\ title # <<>>
                THEN Put(linkTitleMap, Head(links), title)
                ELSE linkTitleMap)

\* search_service.go 1187-1224
RECURSIVE secondPass(_, _, _, _)
secondPass(lines, i, lastTitleIndex, linkTitleMap) ==
    IF i > Len(lines) THEN linkTitleMap
    ELSE secondPass(lines, i + 1, lastTitleIndex,
             titleUnmatched(lines, i, lines[i].links, lastTitleIndex, linkTitleMap))

\* search_service.go 1121-1227
extractLinkTitlePairsWithNewlines(content) ==
    LET st == firstPass(content, 1,
                  [map |-> EmptyTitleMap, lastTitle |-> <<>>, lastTitleIndex |-> 1])
    IN secondPass(content, 1, st.lastTitleIndex, st.map)

\* search_service.go 1230-1290, for an empty Content, the only Content
\* without "\n" of this model: no link is found and the map is empty
extractLinkTitlePairsWithoutNewlines(content) == EmptyTitleMap

\* search_service.go 1110-1119
extractLinkTitlePairs(content) ==
    IF Len(content) > 1
    THEN extractLinkTitlePairsWithNewlines(content)
    ELSE extractLinkTitlePairsWithoutNewlines(content)

\* Faulty variant: the plugin's SkipServiceFilter() is not consulted.
shouldNeverSkipFilter(result) == FALSE

\* part_000 228-239
shouldSkipFilterForResult(result) ==
    LET pluginName == pluginNameOf(result.UniqueID)
    IN pluginName \in Range(AllPlugins) /\ SkipServiceFilter(pluginName)

\* util.CutTitleByKeywords as called at part_000 182: the title up to the
\* first of the given words
CutWords == {"jianjie", "miaoshu"}
RECURSIVE CutTitleByKeywords(_, _)
CutTitleByKeywords(title, keywords) ==
    IF title = <<>> \/ Head(title) \in keywords THEN <<>>
    ELSE <<Head(title)>> \o CutTitleByKeywords(Tail(title), keywords)

\* the links of the results, in the order the loops at part_000 136/146
\* visit them
RECURSIVE linkOccurrences(_)
linkOccurrences(results) ==
    IF results = <<>> THEN <<>>
    ELSE [j \in 1..Len(Head(results).Links) |->
             [result |-> Head(results), link |-> Head(results).Links[j]]]
         \o linkOccurrences(Tail(results))

\* part_000 147-166: the title of one link; the prefix search ranges over a
\* map, so any title whose link starts with the URL can be the one found
possibleTitles(occ) ==
    LET linkTitleMap == extractLinkTitlePairs(occ.result.Content)
        url == occ.link.URL
        prefixed == { linkTitleMap[m] : m \in { x \in DOMAIN linkTitleMap : HasPrefix(x, url) } }
    IN IF occ.link.WorkTitle # <<>> THEN {occ.link.WorkTitle}
       ELSE IF url \in DOMAIN linkTitleMap /\ linkTitleMap[url] # <<>>
            THEN {linkTitleMap[url]}
       ELSE IF prefixed # {} THEN prefixed
       ELSE {occ.result.Title}

TitleChoices(occs) ==
    { c \in [1..Len(occs) -> UNION { possibleTitles(occs[n]) : n \in 1..Len(occs) }] :
        \A n \in 1..Len(occs) : c[n] \in possibleTitles(occs[n]) }

\* part_000 168-207 for the n-th link and those after it
RECURSIVE uniqueLinksFrom(_, _, _, _, _)
uniqueLinksFrom(occs, titles, keyword, n, uniqueLinks) ==
    IF n > Len(occs) THEN uniqueLinks
    ELSE LET result == occs[n].result
             link == occs[n].link
             skipKeywordFilter == shouldSkipFilterForResult(result)
             mergedLink ==
                 [URL |-> link.URL, Password |-> link.Password,
                  Note |-> CutTitleByKeywords(titles[n], CutWords),
                  Datetime |-> IF link.Datetime # 0 THEN link.Datetime
                               ELSE result.Datetime,
                  Source |-> getResultSource(result)]
         IN IF ~skipKeywordFilter /\ keyword # ""
                 /\ ~Contains(LowerWords(titles[n]), LowerWord(keyword))
            THEN uniqueLinksFrom(occs, titles, keyword, n + 1, uniqueLinks)
            ELSE IF link.URL \in DOMAIN uniqueLinks
                     /\ ~(mergedLink.Datetime > uniqueLinks[link.URL].Datetime)
            THEN uniqueLinksFrom(occs, titles, keyword, n + 1, uniqueLinks)
            ELSE uniqueLinksFrom(occs, titles, keyword, n + 1,
                                 Put(uniqueLinks, link.URL, mergedLink))

\* part_000 341-363
RECURSIVE collectOrderedLinks(_, _, _)
collectOrderedLinks(occs, uniqueLinks, orderedLinks) ==
    IF occs = <<>> THEN orderedLinks
    ELSE LET url == Head(occs).link.URL
         IN collectOrderedLinks(Tail(occs), uniqueLinks,
                IF url \in DOMAIN uniqueLinks
                    /\ ~\E i \in 1..Len(orderedLinks) : orderedLinks[i].URL = url
                THEN Append(orderedLinks, uniqueLinks[url])
                ELSE orderedLinks)

\* part_000 212-216
groupByType(orderedLinks) ==
    [t \in { determineLinkType(orderedLinks[i].URL) : i \in 1..Len(orderedLinks) } |->
        SelectSeq(orderedLinks, LAMBDA l : determineLinkType(l.URL) = t)]

\* part_000 366-383
filterLinksByCloudTypes(mergedLinks, cloudTypes) ==
    [t \in { x \in DOMAIN mergedLinks : LowerWord(x) \in Range(LowerWords(cloudTypes)) } |->
        mergedLinks[t]]

\* part_000 125-225: the groupings the call can produce
mergeResultsByType(results, keyword, cloudTypes) ==
    LET occs == linkOccurrences(results)
    IN { LET mergedLinks ==
                 groupByType(collectOrderedLinks(occs,
                     uniqueLinksFrom(occs, titles, keyword, 1, [x \in {} |-> <<>>]),
                     <<>>))
         IN IF Len(cloudTypes) > 0
            THEN filterLinksByCloudTypes(mergedLinks, cloudTypes)
            ELSE mergedLinks
         : titles \in TitleChoices(occs) }

\* the links of all buckets
RECURSIVE linkCountOver(_, _)
linkCountOver(mergedLinks, types) ==
    IF types = {} THEN 0
    ELSE LET t == CHOOSE x \in types : TRUE
         IN Len(mergedLinks[t]) + linkCountOver(mergedLinks, types \ {t})

\* Search 243-253
totalOf(resultType, filteredForResults, mergedLinks) ==
    IF resultType = "merged_by_type"
    THEN linkCountOver(mergedLinks, DOMAIN mergedLinks)
    ELSE Len(filteredForResults)

NoResults == [isNil |-> TRUE, list |-> <<>>]
NoLinks == [isNil |-> TRUE, byType |-> [x \in {} |-> <<>>]]

\* search_service.go 266-292
filterResponseByType(response, resultType) ==
    CASE resultType = "merged_by_type" ->
             [Total |-> response.Total, Results |-> NoResults,
              MergedByType |-> response.MergedByType]
      [] resultType = "all" -> response
      [] resultType = "results" ->
             [Total |-> response.Total, Results |-> response.Results,
              MergedByType |-> NoLinks]
      [] OTHER ->
             [Total |-> response.Total, Results |-> NoResults,
              MergedByType |-> response.MergedByType]

(***************************************************************************)
(* Two consecutive calls of Search whose sub-searches return the same      *)
(* lists (the second is answered by the caches the first one read).        *)
(***************************************************************************)
MaxTGResults == 1
MaxPluginResults == 2

U1 == <<"quark", "a">>
U2 == <<"quark", "%61">>
U3 == <<"baidu", "a">>
U3x == <<"baidu", "a", "x">>
U3y == <<"baidu", "a", "y">>

PA1 == Result("pa-1", <<"movie">>, 0, <<Link(U1, 0)>>, <<>>, "", <<>>)
PA1new == Result("pa-1", <<"movie">>, 2, <<Link(U1, 2)>>, <<>>, "", <<>>)
PB1 == Result("pb-1", <<"movie", "Complete">>, 0, <<>>, <<>>, "", <<>>)
PB2 == Result("pb-2", <<"movie">>, 1, <<Link(U2, 0)>>, <<>>, "", <<>>)
PB3 == Result("pb-3", <<"film">>, 1, <<Link(U2, 0)>>, <<>>, "", <<>>)
PB4 == Result("pb-4", <<"heji">>, 0, <<Link(U3, 0)>>, <<>>, "", <<>>)
TG1 == Result("ch_9", <<"movie">>, 2, <<Link(U3, 0)>>,
              <<Line(<<"movie", "x">>, "full", <<U3x>>),
                Line(<<"movie", "y">>, "full", <<U3y>>)>>, "ch", <<>>)

TGLists == UNION { [1..n -> {TG1}] : n \in 0..MaxTGResults }
PluginLists ==
    UNION { [1..n -> {PA1, PA1new, PB1, PB2, PB3, PB4}] : n \in 0..MaxPluginResults }
ResultTypes == {"", "all", "results", "merged_by_type", "other"}
SearchKeywords == {"", "movie", "Film"}

EmptyLinks == [x \in {} |-> <<>>]
EmptyResponse == [Total |-> 0, Results |-> NoResults, MergedByType |-> NoLinks]

Searched(tgResults, pluginResults, resultType, keyword, round, previous) ==
    [stage |-> "searched", round |-> round, previous |-> previous,
     tgResults |-> tgResults, pluginResults |-> pluginResults,
     resultType |-> resultType, keyword |-> keyword,
     allResults |-> <<>>, filteredForResults |-> <<>>,
     mergedLinks |-> EmptyLinks, response |-> EmptyResponse]

RespondInit ==
    /\ EngineInit
    /\ cacheInitialized
    /\ PoolInit
    /\ slot = SlotIdle
    /\ mrg = MrgIdle
    /\ pm = NewPluginManager
    /\ sweeper = SweeperIdle
    /\ \E tgResults \in TGLists, pluginResults \in PluginLists,
          resultType \in ResultTypes, keyword \in SearchKeywords :
           srv = Searched(tgResults, pluginResults, resultType, keyword, 1, EmptyResponse)

\* Search 225
MergeSources ==
    /\ srv.stage = "searched"
    /\ \E merged \in mergeTGAndPluginResults(srv.tgResults, srv.pluginResults) :
           srv' = [srv EXCEPT !.stage = "merged", !.allResults = merged]
    /\ UNCHANGED otherVars

\* Search 228
SortResults ==
    /\ srv.stage = "merged"
    /\ srv' = [srv EXCEPT !.stage = "sorted",
                          !.allResults = sortResultsByTimeAndKeywords(@)]
    /\ UNCHANGED otherVars

\* Search 230-237
FilterResults ==
    /\ srv.stage = "sorted"
    /\ srv' = [srv EXCEPT !.stage = "filtered",
                          !.filteredForResults = filterForResults(srv.allResults)]
    /\ UNCHANGED otherVars

\* Search 240
GroupLinks ==
    /\ srv.stage = "filtered"
    /\ \E mergedLinks \in mergeResultsByType(srv.allResults, srv.keyword, <<>>) :
           srv' = [srv EXCEPT !.stage = "grouped", !.mergedLinks = mergedLinks]
    /\ UNCHANGED otherVars

\* Search 242-262
Respond ==
    /\ srv.stage = "grouped"
    /\ srv' = [srv EXCEPT
           !.stage = "responded",
           !.response = filterResponseByType(
               [Total |-> totalOf(srv.resultType, srv.filteredForResults, srv.mergedLinks),
                Results |-> List(srv.filteredForResults),
                MergedByType |-> [isNil |-> FALSE, byType |-> srv.mergedLinks]],
               srv.resultType)]
    /\ UNCHANGED otherVars

\* the same request is made once more
SearchAgain ==
    /\ srv.stage = "responded"
    /\ srv.round = 1
    /\ srv' = Searched(srv.tgResults, srv.pluginResults, srv.resultType,
                       srv.keyword, 2, srv.response)
    /\ UNCHANGED otherVars

RespondNext ==
    \/ MergeSources
    \/ SortResults
    \/ FilterResults
    \/ GroupLinks
    \/ Respond
    \/ SearchAgain

SpecRespond == RespondInit /\ [][RespondNext]_vars

\* ---------------------------------------------------------------------------
\* C16 .. C20: the response of Search
\* ---------------------------------------------------------------------------

Responded == srv.stage = "responded"
Inputs == Range(srv.tgResults) \cup Range(srv.pluginResults)

\* every link of every bucket, as <<type, position>>
Entries(byType) ==
    { <<t, i>> : t \in DOMAIN byType, i \in 1..MaxTGResults + MaxPluginResults } \cap
    UNION { { <<t, i>> : i \in 1..Len(byType[t]) } : t \in DOMAIN byType }

\* C16: in a response, every element of Results has at least one link, and
\* every MergedByType entry carries the URL of a link of some result that was
\* searched (so none stems from a result without links).
C16_NoEmptyLinksInResponse ==
    Responded =>
        /\ \A i \in 1..Len(srv.response.Results.list) :
               Len(srv.response.Results.list[i].Links) > 0
        /\ \A e \in Entries(srv.response.MergedByType.byType) :
               \E r \in Inputs : \E j \in 1..Len(r.Links) :
                   r.Links[j].URL = srv.response.MergedByType.byType[e[1]][e[2]].URL

PluginTier(result) == getPluginLevelBySource(getResultSource(result))

\* C17: a merged result is in the response's Results list exactly if its
\* Datetime is not zero, or its title has a priority keyword, or its plugin
\* tier is at most 2.
C17_KeptIffTimeKeywordOrTier ==
    (Responded /\ ~srv.response.Results.isNil) =>
        \A i \in 1..Len(srv.allResults) :
            LET r == srv.allResults[i]
            IN (r \in Range(srv.response.Results.list))
                  <=> \/ r.Datetime # 0
                      \/ getKeywordPriority(r.Title) > 0
                      \/ PluginTier(r) <= 2

\* C18: Total matches the projection returned: the length of Results when the
\* response carries Results (resultType results or all), the number of links
\* over all buckets when it is the merged_by_type projection, which is also
\* the projection of an empty or unrecognized resultType.
C18_TotalMatchesProjection ==
    Responded =>
        IF ~srv.response.Results.isNil
        THEN srv.response.Total = Len(srv.response.Results.list)
        ELSE srv.response.Total =
                 linkCountOver(srv.response.MergedByType.byType,
                               DOMAIN srv.response.MergedByType.byType)

\* C19: the second of two consecutive identical calls, made over the same
\* cached lists, returns the response of the first: the same Results in the
\* same order, the same buckets with the same links, order and Notes.
C19_RepeatedCallSameResponse ==
    (Responded /\ srv.round = 2) => srv.response = srv.previous

\* C20: no two MergedLinks of a response, in one bucket or in two, have URLs
\* that are equal after normalizeUrl.
C20_NoTwoLinksSameNormalizedURL ==
    (Responded /\ ~srv.response.MergedByType.isNil) =>
        LET byType == srv.response.MergedByType.byType
        IN \A e1, e2 \in Entries(byType) :
               normalizeUrl(byType[e1[1]][e1[2]].URL) = normalizeUrl(byType[e2[1]][e2[2]].URL)
                   => e1 = e2

\* ---------------------------------------------------------------------------
\* C21: merging two lists that share a UniqueID
\* ---------------------------------------------------------------------------

DistinctIDs(list) ==
    \A i, j \in 1..Len(list) : list[i].UniqueID = list[j].UniqueID => i = j

\* C21: when a list A (already stored) is merged with a list B, each without
\* repeated UniqueIDs, and a result of A and a result of B share a UniqueID
\* with different Datetimes, the merged list holds exactly one result of that
\* UniqueID and it is the one with the later Datetime.
C21_SharedIDKeepsLaterDatetime ==
    (/\ mrg.stage \in {"AB", "done"}
     /\ DistinctIDs(mrg.A)
     /\ DistinctIDs(mrg.B))
        => \A i \in 1..Len(mrg.A), j \in 1..Len(mrg.B) :
               (/\ mrg.A[i].UniqueID = mrg.B[j].UniqueID
                /\ mrg.A[i].Datetime # mrg.B[j].Datetime)
                   => LET later == IF mrg.A[i].Datetime > mrg.B[j].Datetime
                                   THEN mrg.A[i] ELSE mrg.B[j]
                          same == { k \in 1..Len(mrg.AB) :
                                      mrg.AB[k].UniqueID = later.UniqueID }
                      IN /\ Cardinality(same) = 1
                         /\ \A k \in same : mrg.AB[k] = later

\* ---------------------------------------------------------------------------
\* C22, C23: the ranking
\* ---------------------------------------------------------------------------

Sorting == srv.stage = "merged" /\ srv'.stage = "sorted"
PositionIn(list, r) == CHOOSE k \in 1..Len(list) : list[k] = r

\* C22: sortResultsByTimeAndKeywords leaves a permutation of its input, in
\* non-increasing order of the total score, and two results of equal total
\* keep the relative order they had in the input.
C22_SortIsStableDescending ==
    [][Sorting =>
        LET in == srv.allResults
            out == srv'.allResults
        IN /\ Len(out) = Len(in)
           /\ Range(out) = Range(in)
           /\ \A i, j \in 1..Len(out) :
                  i < j => TotalScore(out[i]) >= TotalScore(out[j])
           /\ \A i, j \in 1..Len(in) :
                  (i < j /\ TotalScore(in[i]) = TotalScore(in[j]))
                      => PositionIn(out, in[i]) < PositionIn(out, in[j])]_vars

Ranked == srv.stage \in {"sorted", "filtered", "grouped", "responded"}

Grouped == srv.stage \in {"grouped", "responded"}

\* the plugin named by the prefix of the UniqueID is registered and asks to
\* skip the service's filter
OwnerSkipsFilter(result) ==
    /\ pluginNameOf(result.UniqueID) \in Range(AllPlugins)
    /\ SkipServiceFilter(pluginNameOf(result.UniqueID))

TitleHasKeyword(occ) ==
    \E title \in possibleTitles(occ) :
        Contains(LowerWords(title), LowerWord(srv.keyword))

BucketURLs ==
    { srv.mergedLinks[e[1]][e[2]].URL : e \in Entries(srv.mergedLinks) }

\* C24: with a non-empty keyword, the URL of a link is among the grouped
\* links exactly if some result carries it whose title for it contains the
\* keyword (without regard to case) or whose owning plugin has
\* SkipServiceFilter() = true; a link whose title lacks the keyword and whose
\* result has no such plugin (false, or none found) is dropped.
C24_KeywordFilterUnlessPluginSkips ==
    (Grouped /\ srv.keyword # "") =>
        LET occs == linkOccurrences(srv.allResults)
        IN \A n \in 1..Len(occs) :
               (occs[n].link.URL \in BucketURLs)
                   <=> \E m \in 1..Len(occs) :
                           /\ occs[m].link.URL = occs[n].link.URL
                           /\ \/ OwnerSkipsFilter(occs[m].result)
                              \/ TitleHasKeyword(occs[m])

C24_Witness ==
    /\ srv.stage = "grouped"
    /\ srv.keyword = "Film"
    /\ srv.allResults = <<PA1, PB4>>
    /\ ~OwnerSkipsFilter(PA1)
    /\ OwnerSkipsFilter(PB4)
    /\ BucketURLs = {U3}

(***************************************************************************)
(* The plugin manager (manager.go): registration calls on one manager.     *)
(* A call of Initialize returns an error or not; the manager counts them.  *)
(***************************************************************************)
MaxRegistrations == 2
MaxEnabledLen == 2

EnabledNames == {"pa", "PA", "pb", "px"}
EnabledArgs ==
    {NilList} \cup
    { List(l) : l \in UNION { [1..n -> EnabledNames] : n \in 0..MaxEnabledLen } }

\* GetRegisteredPlugins (part_002 35-45) ranges over the registry map
RegistryOrders ==
    { o \in [1..Cardinality(globalRegistry) -> globalRegistry] :
        \A p \in globalRegistry : \E i \in 1..Len(o) : o[i] = p }
InitializeOutcomes == [Initializable -> BOOLEAN]

\* Faulty variant of the registration: a plugin whose Initialize failed is
\* added all the same.
registerIgnoringInitialize(m, plugin, ok) ==
    IF plugin \in Initializable
    THEN [m EXCEPT !.initialized[plugin] = @ + 1, !.plugins = Append(@, plugin)]
    ELSE [m EXCEPT !.plugins = Append(@, plugin)]

\* manager.go 25-35, ok being what Initialize returns
registerPlugin(m, plugin, ok) ==
    IF plugin \in Initializable
    THEN IF ~ok
         THEN [m EXCEPT !.initialized[plugin] = @ + 1]
         ELSE [m EXCEPT !.initialized[plugin] = @ + 1,
                        !.plugins = Append(@, plugin)]
    ELSE [m EXCEPT !.plugins = Append(@, plugin)]

\* the loops at manager.go 40-42 and 66-70 over the selected plugins
RECURSIVE registerEach(_, _, _, _)
registerEach(m, allPlugins, selected, oks) ==
    IF allPlugins = <<>> THEN m
    ELSE LET plugin == Head(allPlugins)
         IN registerEach(
                IF plugin \in selected
                THEN registerPlugin(m, plugin,
                         IF plugin \in Initializable THEN oks[plugin] ELSE TRUE)
                ELSE m,
                Tail(allPlugins), selected, oks)

\* Faulty variant of the filter: names are compared as written.
enabledExactly(enabledPlugins) ==
    IF enabledPlugins.isNil \/ Len(enabledPlugins.list) = 0 THEN {}
    ELSE { p \in globalRegistry : p \in Range(enabledPlugins.list) }

\* manager.go 47-64: the registered plugins the filter lets through
enabledOf(enabledPlugins) ==
    IF enabledPlugins.isNil \/ Len(enabledPlugins.list) = 0 THEN {}
    ELSE { p \in globalRegistry : ToLower(p) \in Range(Lowered(enabledPlugins.list)) }

Registered(m, op, arg, oks) ==
    [m EXCEPT !.calls = @ + 1,
              !.last = [op |-> op, arg |-> arg, oks |-> oks,
                        before |-> pm.plugins, initializedBefore |-> pm.initialized]]

\* manager.go 25-35
RegisterPlugin(plugin, oks) ==
    /\ pm.calls < MaxRegistrations
    /\ pm' = Registered(registerPlugin(pm, plugin,
                            IF plugin \in Initializable THEN oks[plugin] ELSE TRUE),
                        "RegisterPlugin", List(<<plugin>>), oks)
    /\ UNCHANGED <<sharedVars, task, poolVars, slot, mrg, srv, sweeper>>

\* manager.go 38-43
RegisterAllGlobalPlugins(allPlugins, oks) ==
    /\ pm.calls < MaxRegistrations
    /\ pm' = Registered(registerEach(pm, allPlugins, globalRegistry, oks),
                        "RegisterAllGlobalPlugins", NilList, oks)
    /\ UNCHANGED <<sharedVars, task, poolVars, slot, mrg, srv, sweeper>>

\* manager.go 47-72
RegisterGlobalPluginsWithFilter(enabledPlugins, allPlugins, oks) ==
    /\ pm.calls < MaxRegistrations
    /\ pm' = Registered(registerEach(pm, allPlugins, enabledOf(enabledPlugins), oks),
                        "RegisterGlobalPluginsWithFilter", enabledPlugins, oks)
    /\ UNCHANGED <<sharedVars, task, poolVars, slot, mrg, srv, sweeper>>

\* manager.go 75-77
GetPlugins == pm.plugins

ManagerInit == Init /\ cacheInitialized

ManagerNext ==
    \/ \E plugin \in globalRegistry, oks \in InitializeOutcomes :
           RegisterPlugin(plugin, oks)
    \/ \E allPlugins \in RegistryOrders, oks \in InitializeOutcomes :
           RegisterAllGlobalPlugins(allPlugins, oks)
    \/ \E enabledPlugins \in EnabledArgs, allPlugins \in RegistryOrders,
          oks \in InitializeOutcomes :
           RegisterGlobalPluginsWithFilter(enabledPlugins, allPlugins, oks)

SpecManager == ManagerInit /\ [][ManagerNext]_vars

\* ---------------------------------------------------------------------------
\* C25, C26: registration
\* ---------------------------------------------------------------------------

FilteredFresh ==
    /\ pm.last.op = "RegisterGlobalPluginsWithFilter"
    /\ pm.calls = 1

NamedIn(enabledPlugins) ==
    { p \in globalRegistry :
        \E i \in 1..Len(enabledPlugins.list) :
            ToLower(enabledPlugins.list[i]) = ToLower(p) }

\* C25 as stated: after RegisterGlobalPluginsWithFilter(L) on a fresh manager,
\* GetPlugins() is empty for a nil or empty L and otherwise holds exactly the
\* registered plugins named in L without regard to case.
C25_FilterRegistersExactlyNamed ==
    FilteredFresh =>
        IF pm.last.arg.isNil \/ Len(pm.last.arg.list) = 0
        THEN GetPlugins = <<>>
        ELSE /\ Range(GetPlugins) = NamedIn(pm.last.arg)
             /\ Len(GetPlugins) = Cardinality(NamedIn(pm.last.arg))

InitializeSucceeded(p) == p \in Initializable => pm.last.oks[p]

\* C25 (amended): after RegisterGlobalPluginsWithFilter(L) on a fresh manager,
\* GetPlugins() is empty for a nil or empty L and otherwise holds, once each,
\* exactly the registered plugins named in L without regard to case whose
\* Initialize, if they have one, returned no error.
C25_FilterRegistersNamedAndInitialized ==
    FilteredFresh =>
        IF pm.last.arg.isNil \/ Len(pm.last.arg.list) = 0
        THEN GetPlugins = <<>>
        ELSE LET expected == { p \in NamedIn(pm.last.arg) : InitializeSucceeded(p) }
             IN /\ Range(GetPlugins) = expected
                /\ Len(GetPlugins) = Cardinality(expected)

C25_Witness ==
    /\ FilteredFresh
    /\ pm.last.arg = List(<<"PA", "pb">>)
    /\ pm.last.oks["pa"]
    /\ Range(GetPlugins) = {"pa", "PB"}
    /\ Len(GetPlugins) = 2

\* C26: over any sequence of registration calls, Initialize of a plugin that
\* implements it is invoked exactly once when the plugin is in the active set
\* and never more than once.
C26_InitializeInvokedOnce ==
    \A p \in Initializable :
        /\ pm.initialized[p] <= 1
        /\ p \in Range(GetPlugins) => pm.initialized[p] = 1



\* ---------------------------------------------------------------------------
\* C28 .. C30: per-plugin cache hits and the background refresh
\* ---------------------------------------------------------------------------

\* the step of AsyncSearch that consults the per-plugin cache
Dispatching(c) == call[c].pc = "dispatch" /\ call'[c].pc # "dispatch"
Age(e) == Since(e.Timestamp, clock)
ServedFromCache(c, e) ==
    /\ call'[c].pc = "done"
    /\ call'[c].results = e.Results
    /\ ~call'[c].err
    /\ task'[<<c, "bg">>] = task[<<c, "bg">>]
RefreshSpawned(c, e) ==
    /\ task[<<c, "rf">>].pc = "none"
    /\ task'[<<c, "rf">>].pc = "acquire"
    /\ task'[<<c, "rf">>].oldCache = e

\* C28: a hit on a Complete entry younger than cacheTTL returns the cached
\* results without a search for the caller and spawns a refresh exactly when
\* the age exceeds 80% of cacheTTL; a hit on a non-empty entry aged cacheTTL
\* or more returns the stale results and spawns a refresh.
C28_HitReturnsCachedAndRefreshesWhenOld ==
    [][\A c \in Calls : Dispatching(c) =>
          LET e == PluginEntry(c)
          IN /\ (e.present /\ e.Complete /\ Age(e) < cacheTTL) =>
                   /\ ServedFromCache(c, e)
                   /\ RefreshSpawned(c, e) <=> Age(e) * 5 > cacheTTL * 4
                   /\ task'[<<c, "rf">>].pc \in {"none", "acquire"}
             /\ (e.present /\ Len(e.Results) > 0 /\ Age(e) >= cacheTTL) =>
                   /\ ServedFromCache(c, e)
                   /\ RefreshSpawned(c, e)]_vars

\* a fresh complete hit past 80% of cacheTTL has just spawned its refresh
C28_Witness ==
    \E c \in Calls :
        /\ call[c].pc = "done"
        /\ call[c].via = "hitFresh"
        /\ call[c].results = <<RA2, RB>>
        /\ task[<<c, "rf">>].pc = "acquire"
        /\ task[<<c, "rf">>].oldCache.Complete
        /\ Since(task[<<c, "rf">>].oldCache.Timestamp, clock) = Quantum

\* C29: a hit on an entry with no results or with Complete = FALSE is not
\* answered from the cache: the call goes on to the select and its
\* background search is launched.
C29_EmptyOrIncompleteHitFallsThrough ==
    [][\A c \in Calls : Dispatching(c) =>
          LET e == PluginEntry(c)
          IN (e.present /\ (Len(e.Results) = 0 \/ ~e.Complete)) =>
                 /\ call'[c].pc = "select"
                 /\ task'[<<c, "bg">>].pc = "acquire"]_vars


(***************************************************************************)
(* The engine some time after a first query: its search for "k1" returned  *)
(* RA1 in time, the result was stored (base_async.go 217-226) and, with a  *)
(* main cache, written there as final; one quantum has passed since.       *)
(***************************************************************************)
StoredBefore == <<RA1>>
RefreshInit ==
    /\ clock = 1
    /\ cacheInitialized \in BOOLEAN
    /\ apiResponseCache =
           [k \in Keywords |-> IF k = KeywordList[1]
                               THEN cachedResponse(StoredBefore, 0, TRUE, 0, 1)
                               ELSE NoEntry]
    /\ mainCache =
           [k \in Keywords |-> IF cacheInitialized /\ k = KeywordList[1]
                               THEN Data(StoredBefore) ELSE NoData]
    /\ finalUpdateTracker =
           IF cacheInitialized
           THEN {updateKey(GeneratePluginCacheKey(KeywordList[1]), StoredBefore, TRUE)}
           ELSE {}
    /\ call = [c \in Calls |-> IdleCall]
    /\ resultChan = [c \in Calls |-> <<>>]
    /\ errorChan = [c \in Calls |-> <<>>]
    /\ doneChan = [c \in Calls |-> 0]
    /\ task = [t \in TaskIds |-> IdleTask]
    /\ updaterLog = {}
    /\ PoolInit
    /\ slot = SlotIdle
    /\ mrg = MrgIdle
    /\ srv = SrvIdle
    /\ pm = NewPluginManager
    /\ sweeper = SweeperIdle

SpecRefresh == RefreshInit /\ [][Next]_vars

\* the step of refreshCacheInBackground that writes the merged entry
StoringRefresh(c) == task[<<c, "rf">>].pc = "store" /\ task'[<<c, "rf">>].pc # "store"

\* C30: the entry a successful refresh writes contains every result of the
\* per-plugin entry that is current when it writes, so nothing stored
\* while the refresh was running is lost.
C30_RefreshKeepsCurrentEntry ==
    [][\A c \in Calls : StoringRefresh(c) =>
          LET key == pluginSpecificCacheKey(call[c].keyword)
          IN IDs(apiResponseCache[key].Results)
                 \subseteq IDs(apiResponseCache'[key].Results)]_vars


(***************************************************************************)
(* The expiry sweeper (async_infrastructure.go 66-107), started as a       *)
(* goroutine by every recordCacheAccess (198).  In this specification the  *)
(* clock counts half hours.  The sweep holds cleanupMutex from its         *)
(* first to its last step; Range hands it one entry at a time, and the     *)
(* Delete of an entry is a step after the one that read it.                *)
(***************************************************************************)
\* 30*time.Minute and time.Hour, in half hours
HalfHour == 1
Hour == 2 * HalfHour
\* async_infrastructure.go 38
defaultCacheTTL == 1 * Hour
\* async_infrastructure.go 85
expireThreshold == defaultCacheTTL + HalfHour
\* values of config.AppConfig.AsyncCacheTTLHours (base_async.go 47-49)
AsyncCacheTTLHours == {1, 3}
\* last value of the clock, and the number of cache hits that are followed
MaxSweepClock == 4
MaxCacheHits == 2

\* NewBaseAsyncPlugin 39-49: p.cacheTTL comes from the configuration
SweeperInit ==
    /\ EngineInit
    /\ PoolInit
    /\ slot = SlotIdle
    /\ mrg = MrgIdle
    /\ srv = SrvIdle
    /\ pm = NewPluginManager
    /\ \E h \in AsyncCacheTTLHours :
           sweeper = [SweeperIdle EXCEPT !.cacheTTL = h * Hour]

sweeperFrame ==
    <<cacheInitialized, mainCache, finalUpdateTracker, backgroundWorkerPool,
      backgroundTasksCount, call, resultChan, errorChan, doneChan, task,
      updaterLog, slot, mrg, srv, pm>>

HalfHourPasses ==
    /\ clock < MaxSweepClock
    /\ clock' = clock + 1
    /\ UNCHANGED <<apiResponseCache, sweeper, sweeperFrame>>

\* base_async.go 217-226, 661-667: a background completion or a refresh
\* stores its results as a complete entry stamped with the current time
StoreResults(k) ==
    /\ apiResponseCache' =
           [apiResponseCache EXCEPT ![k] = cachedResponse(StoredBefore, clock, TRUE, clock, 1)]
    /\ UNCHANGED <<clock, sweeper, sweeperFrame>>

\* base_async.go 155-176 with async_infrastructure.go 183-184: AsyncSearch
\* is answered from the entry, and recordCacheAccess loads it
CacheHit(k) ==
    /\ sweeper.hits < MaxCacheHits
    /\ sweeper.accessKey = ""
    /\ LET e == apiResponseCache[k]
       IN \/ e.present /\ clock - e.Timestamp < sweeper.cacheTTL /\ e.Complete
          \/ ServesStale(e)
    /\ sweeper' = [sweeper EXCEPT !.hits = @ + 1, !.accessKey = k,
                                  !.cachedItem = apiResponseCache[k]]
    /\ UNCHANGED <<clock, apiResponseCache, sweeperFrame>>

\* async_infrastructure.go 185-198: the loaded item is stored back with its
\* access time and count bumped, and cleanupExpiredApiCache is started as a
\* goroutine
recordCacheAccessStore ==
    /\ sweeper.accessKey # ""
    /\ apiResponseCache' =
           [apiResponseCache EXCEPT ![sweeper.accessKey] =
               [sweeper.cachedItem EXCEPT !.LastAccess = clock,
                                          !.AccessCount = @ + 1]]
    /\ sweeper' = [sweeper EXCEPT !.accessKey = "", !.cachedItem = NoEntry,
                                  !.pending = @ + 1]
    /\ UNCHANGED <<clock, sweeperFrame>>

\* 67-74: the mutex is taken; nothing is done within 30 minutes of the last sweep
cleanupBegin ==
    /\ sweeper.pending > 0
    /\ sweeper.pc = "idle"
    /\ sweeper' =
           IF clock - sweeper.lastCleanupTime < HalfHour
           THEN [sweeper EXCEPT !.pending = @ - 1]
           ELSE [sweeper EXCEPT !.pending = @ - 1, !.pc = "range", !.now = clock,
                                !.todo = Keywords]
    /\ UNCHANGED <<clock, apiResponseCache, sweeperFrame>>

\* 81-86: Range hands over one entry, in no particular order
cleanupVisit(k) ==
    /\ sweeper.pc = "range"
    /\ k \in sweeper.todo
    /\ LET cached == apiResponseCache[k]
       IN sweeper' =
              IF cached.present /\ sweeper.now - cached.Timestamp > expireThreshold
              THEN [sweeper EXCEPT !.pc = "delete", !.key = k]
              ELSE [sweeper EXCEPT !.todo = @ \ {k}]
    /\ UNCHANGED <<clock, apiResponseCache, sweeperFrame>>

\* 87-90: the key is deleted, whatever entry it holds by now
cleanupDelete ==
    /\ sweeper.pc = "delete"
    /\ apiResponseCache' = [apiResponseCache EXCEPT ![sweeper.key] = NoEntry]
    /\ sweeper' =
           [sweeper EXCEPT
               !.pc = "range", !.key = "", !.todo = @ \ {sweeper.key},
               !.deleted = apiResponseCache[sweeper.key], !.deletedAt = clock]
    /\ UNCHANGED <<clock, sweeperFrame>>

\* 95-102: lastCleanupTime = now, and the mutex is released
cleanupEnd ==
    /\ sweeper.pc = "range"
    /\ sweeper.todo = {}
    /\ sweeper' = [sweeper EXCEPT !.pc = "idle", !.lastCleanupTime = sweeper.now,
                                  !.sweeps = IF @ < 2 THEN @ + 1 ELSE @,
                                  !.previous = sweeper.lastCleanupTime]
    /\ UNCHANGED <<clock, apiResponseCache, sweeperFrame>>

SweeperNext ==
    \/ HalfHourPasses
    \/ \E k \in Keywords : StoreResults(k)
    \/ \E k \in Keywords : CacheHit(k)
    \/ recordCacheAccessStore
    \/ cleanupBegin
    \/ \E k \in Keywords : cleanupVisit(k)
    \/ cleanupDelete
    \/ cleanupEnd

SpecSweeper == SweeperInit /\ [][SweeperNext]_vars

\* ---------------------------------------------------------------------------
\* C27: the expiry sweeper
\* ---------------------------------------------------------------------------

\* the latest sweep and the one before it (sweeper.previous is the time of
\* the package load until two sweeps have run)
SweepsHalfHourApart ==
    sweeper.sweeps >= 2 => sweeper.lastCleanupTime - sweeper.previous >= HalfHour
\* the entry the latest Delete removed, and its age at that moment
DeletedAge == sweeper.deletedAt - sweeper.deleted.Timestamp
DeletedPastPluginTTL ==
    sweeper.deleted.present => DeletedAge > sweeper.cacheTTL + HalfHour
NoFreshEntryDeleted ==
    sweeper.deleted.present =>
        ~(sweeper.deleted.Complete /\ DeletedAge < sweeper.cacheTTL)

\* C27: two sweeps are at least 30 minutes apart, an entry is deleted only
\* when its age exceeds the plugin's cacheTTL plus 30 minutes, and no entry
\* that AsyncSearch would still serve as fresh is deleted.
C27_SweeperDeletesOnlyPastPluginTTL ==
    /\ SweepsHalfHourApart
    /\ DeletedPastPluginTTL
    /\ NoFreshEntryDeleted

\* ---------------------------------------------------------------------------
\* C31 .. C32: what the background task of AsyncSearch leaves behind
\* ---------------------------------------------------------------------------

\* the background task of c stores its entry
BgStores(c) ==
    /\ Bg(c).pc \in {"inlineStore", "lateStore", "earlyStore"}
    /\ Bg(c)'.pc = "updCheck"
\* the step of the late path that reads the old entry and merges
LateMerging(c) == Bg(c).pc = "lateLoad" /\ Bg(c)'.pc = "lateStore"

\* C31: a background task that completes without error after its call has
\* returned writes its new results, in their order, followed by the old
\* results whose UniqueID is not among the new ones, so that every UniqueID
\* of the old entry is in the entry it writes.
C31_LateCompletionMergesOldEntry ==
    [][\A c \in Calls :
          /\ LateMerging(c) =>
                 Bg(c)'.results = mergeNewFirst(Bg(c).results, PluginEntry(c).Results)
          /\ BgStores(c) /\ call[c].pc = "done" =>
                 /\ PluginEntry(c)'.Results = Bg(c).results
                 /\ IDs(PluginEntry(c).Results) \subseteq IDs(PluginEntry(c)'.Results)]_vars

\* what a background task can write: the two caches, the tracker, the updater
Written == <<apiResponseCache, mainCache, finalUpdateTracker, updaterLog>>
\* searchFn of the background task of c returns an error
SearchFails(c) ==
    \E out \in SearchReturns :
        out.err /\ (BgInlineSearch(c, out) \/ BgPooledSearch(c, out))
Ended(t) == t.pc \in {"release", "done"}

\* C32: when searchFn returns an error the background task ends (releasing
\* its slot if it holds one) without writing to the per-plugin cache and
\* without a main-cache update, on the in-line and on the pooled path,
\* before and after the response; and a call waiting in its select with the
\* error in errorChan returns that error with no results.
C32_FailedSearchWritesNothing ==
    [][\A c \in Calls :
          /\ SearchFails(c) => Ended(Bg(c)') /\ UNCHANGED Written
          /\ Ended(Bg(c)) /\ Bg(c)' # Bg(c) => Ended(Bg(c)') /\ UNCHANGED Written
          /\ call[c].pc = "select" /\ errorChan[c] # <<>> /\ call'[c] # call[c] =>
                 /\ call'[c].pc = "done" /\ call'[c].err
                 /\ call'[c].results = <<>>]_vars

\* one call has returned the error of its search; the search of another, which
\* had timed out, has failed after the response and its placeholder is still
\* the entry
C32_Witness ==
    \E c, d \in Calls :
        /\ call[c].pc = "done" /\ call[c].via = "error" /\ Bg(c).pc = "done"
        /\ ~PluginEntry(c).present
        /\ call[d].pc = "done" /\ call[d].via = "timeout" /\ Bg(d).pc = "done"
        /\ IsPlaceholder(PluginEntry(d))
        /\ updaterLog = {}

(***************************************************************************)
(* The link functions of the service on their own: determineLinkType on a  *)
(* URL, and extractLinkTitlePairs followed by mergeResultsByType on one    *)
(* message whose Links are the URLs of its Content.                        *)
(***************************************************************************)
MaxURLParts == 2
MaxContentLines == 3
URLParts == {"magnet:", "ed2k:", "115", "baidu", "quark", "uc.cn", "x"}
LinkURLs == UNION { [1..n -> URLParts] : n \in 1..MaxURLParts }

\* 阿凡达 / 名称：泰坦尼克 / an empty line / 链接: U1 / 夸克链接: U1 密码: abcd /
\* 夸克：U3 / 泰坦尼克：U3 / U3
ContentLines ==
    {Line(<<"avatar">>, "", <<>>),
     Line(<<"mingcheng:", "titanic">>, "", <<>>),
     Line(<<>>, "", <<>>),
     Line(<<"lianjie">>, ":", <<U1>>),
     Line(<<"kuakelianjie">>, ":", <<U1>>),
     Line(<<"kuake">>, "full", <<U3>>),
     Line(<<"titanic">>, "full", <<U3>>),
     Line(<<>>, "", <<U3>>)}
Contents == UNION { [1..n -> ContentLines] : n \in 2..MaxContentLines }

RECURSIVE linksOf(_)
linksOf(content) ==
    IF content = <<>> THEN <<>>
    ELSE [n \in 1..Len(Head(content).links) |-> Link(Head(content).links[n], 0)]
         \o linksOf(Tail(content))
\* the message that carries the Content
Message(content) == Result("ch_1", <<"msg">>, 2, linksOf(content), content, "ch", <<>>)

LinksInit ==
    /\ EngineInit
    /\ PoolInit
    /\ slot = SlotIdle
    /\ mrg = MrgIdle
    /\ pm = NewPluginManager
    /\ sweeper = SweeperIdle
    /\ \/ \E url \in LinkURLs : srv = [stage |-> "url", url |-> url]
       \/ \E content \in Contents : srv = [stage |-> "content", content |-> content]

ClassifyLink ==
    /\ srv.stage = "url"
    /\ srv' = [stage |-> "typed", url |-> srv.url, type |-> determineLinkType(srv.url)]
    /\ UNCHANGED otherVars

ExtractPairs ==
    /\ srv.stage = "content"
    /\ srv' = [stage |-> "paired", content |-> srv.content,
               linkTitleMap |-> extractLinkTitlePairs(srv.content)]
    /\ UNCHANGED otherVars

GroupMessage ==
    /\ srv.stage = "paired"
    /\ \E mergedLinks \in mergeResultsByType(<<Message(srv.content)>>, "", <<>>) :
           srv' = [stage |-> "grouped", content |-> srv.content,
                   linkTitleMap |-> srv.linkTitleMap, mergedLinks |-> mergedLinks]
    /\ UNCHANGED otherVars

LinksNext == ClassifyLink \/ ExtractPairs \/ GroupMessage

SpecLinks == LinksInit /\ [][LinksNext]_vars

\* ---------------------------------------------------------------------------
\* C33, C34: link types and link titles
\* ---------------------------------------------------------------------------

\* C33: a URL that starts with "magnet:" is tagged magnet and one that starts
\* with "ed2k:" is tagged ed2k, whatever else the URL contains.
C33_MagnetAndEd2kByPrefix ==
    srv.stage = "typed" =>
        /\ HasPrefix(srv.url, <<"magnet:">>) => srv.type = "magnet"
        /\ HasPrefix(srv.url, <<"ed2k:">>) => srv.type = "ed2k"

\* a line without a URL that is a title, and a line "<provider>链接: <URL>"
IsTitleLine(line) == ~HasLinks(line) /\ cleanTitle(TextOf(line)) # <<>>
IsProviderLinkLine(line) ==
    HasLinks(line) /\ line.colon = ":" /\ line.before = <<"kuakelianjie">>
TimesIn(content, url) ==
    Cardinality({ <<i, n>> \in (1..Len(content)) \X (1..MaxContentLines) :
                    n <= Len(content[i].links) /\ content[i].links[n] = url })

\* C34: when a title line without a URL is immediately followed by a line
\* "<provider>链接: <URL>", the URL (occurring nowhere else in the Content)
\* is paired with that title, and the grouped link carries it as its Note.
C34_LinkPairedWithPrecedingTitle ==
    srv.stage = "grouped" =>
        \A i \in 1..(Len(srv.content) - 1) :
            IsTitleLine(srv.content[i]) /\ IsProviderLinkLine(srv.content[i + 1]) =>
                \A n \in 1..Len(srv.content[i + 1].links) :
                    LET url == srv.content[i + 1].links[n]
                        title == cleanTitle(TextOf(srv.content[i]))
                    IN TimesIn(srv.content, url) = 1 =>
                           /\ srv.linkTitleMap[url] = title
                           /\ \E l \in Range(srv.mergedLinks[determineLinkType(url)]) :
                                  l.URL = url /\ l.Note = title

\* ---------------------------------------------------------------------------
\* C35, C36: concurrent writers of one per-plugin entry
\* ---------------------------------------------------------------------------

\* the timeout branch of c stores its placeholder
StoresPlaceholder(c) == call[c].pc = "timeoutStore" /\ call'[c].pc = "done"

\* C35: the placeholder of the timeout branch never replaces an entry that
\* is Complete: results a background task has stored are still the entry
\* after the timeout branch has stored.
C35_PlaceholderKeepsCompleteEntry ==
    [][\A c \in Calls :
          StoresPlaceholder(c) /\ PluginEntry(c).Complete
              /\ PluginEntry(c).Results # <<>> =>
                  /\ PluginEntry(c)'.Results = PluginEntry(c).Results
                  /\ PluginEntry(c)'.Complete]_vars

\* C36: recordCacheAccess changes only LastAccess and AccessCount: when its
\* store is done, the entry has the Results, Timestamp and Complete that the
\* most recent Store of a completion or a refresh gave it.
C36_AccessChangesOnlyAccessFields ==
    [][sweeper.accessKey # "" /\ sweeper'.accessKey = "" =>
          LET before == apiResponseCache[sweeper.accessKey]
              after == apiResponseCache'[sweeper.accessKey]
          IN /\ before.present
             /\ after.Results = before.Results
             /\ after.Timestamp = before.Timestamp
             /\ after.Complete = before.Complete]_vars


(***************************************************************************)
(* AsyncSearchWithResult (base_async.go 395-568) and                       *)
(* completeSearchInBackground (571-612): queries against one plugin.  The  *)
(* clock stands still here, so every complete entry is fresh and far from  *)
(* its expiry; refreshes are the subject of Spec and SpecRefresh.          *)
(*   bg        the func of base_async.go 462-505                           *)
(*   complete  completeSearchInBackground, started when the budget expires *)
(***************************************************************************)
WithResultKinds == {"bg", "complete", "rf"}
WithResultTasks == Calls \X WithResultKinds
Dispatchers == Calls \X {"bg"}
Closers == Calls \X {"bg", "complete"}

WithResultInit ==
    /\ clock = 0
    /\ cacheInitialized \in BOOLEAN
    /\ apiResponseCache = [k \in Keywords |-> NoEntry]
    /\ mainCache = [k \in Keywords |-> NoData]
    /\ finalUpdateTracker = {}
    /\ call = [c \in Calls |-> IdleCall]
    /\ resultChan = [c \in Calls |-> <<>>]
    /\ errorChan = [c \in Calls |-> <<>>]
    /\ doneChan = [c \in Calls |-> 0]
    /\ task = [t \in WithResultTasks |-> IdleTask]
    /\ updaterLog = {}
    /\ PoolInit
    /\ slot = SlotIdle
    /\ mrg = MrgIdle
    /\ srv = SrvIdle
    /\ pm = NewPluginManager
    /\ sweeper = SweeperIdle

\* the outcomes of searchFn told apart here: a list of results, or an error
WithResultReturns == { o \in SearchReturns : o.err \/ Len(o.results) = 1 }

withResultFrame == <<clock, cacheInitialized, finalUpdateTracker, slot, mrg, srv, pm, sweeper>>

\* 409-462: the fast cache path, else the channels and the launch of bg
AsyncSearchWithResult(c, keyword) ==
    /\ call[c].pc = "idle"
    /\ \A d \in Calls : d < c => call[d].pc # "idle"
    /\ keyword \in FirstKeywords(c)
    /\ LET key == pluginSpecificCacheKey(keyword)
           e == apiResponseCache[key]
           started == [call[c] EXCEPT !.keyword = keyword, !.now = clock]
           refresh == [Spawn("acquire") EXCEPT !.oldCache = e]
       IN IF FreshComplete(e, clock)
          THEN /\ apiResponseCache' = recordCacheAccess(apiResponseCache, key, clock)
               /\ call' = [call EXCEPT ![c] =
                     [started EXCEPT !.pc = "done", !.via = "hitFresh",
                                     !.results = e.Results]]
               /\ task' = [task EXCEPT
                     ![<<c, "rf">>] = IF NearExpiry(e, clock) THEN refresh ELSE @]
          ELSE IF ServesStale(e)
          THEN /\ apiResponseCache' = recordCacheAccess(apiResponseCache, key, clock)
               /\ call' = [call EXCEPT ![c] =
                     [started EXCEPT !.pc = "done", !.via = "hitStale",
                                     !.results = e.Results]]
               /\ task' = [task EXCEPT
                     ![<<c, "rf">>] = IF Expired(e, clock) THEN refresh ELSE @]
          ELSE /\ call' = [call EXCEPT ![c] = [started EXCEPT !.pc = "select"]]
               /\ task' = [task EXCEPT ![<<c, "bg">>] = Spawn("acquire")]
               /\ UNCHANGED apiResponseCache
    /\ UNCHANGED <<mainCache, resultChan, errorChan, doneChan, updaterLog, poolVars,
                   withResultFrame>>

\* 473, 489: a slot is taken (its release is deferred), or the search runs
\* in-line with the short client
WithResultAcquire(t) ==
    /\ task[t].pc = "acquire"
    /\ IF acquireWorkerSlot
       THEN /\ backgroundWorkerPool' = backgroundWorkerPool + 1
            /\ backgroundTasksCount' = backgroundTasksCount + 1
            /\ task' = [task EXCEPT ![t].pc = "search", ![t].pooled = TRUE]
       ELSE /\ task' = [task EXCEPT ![t].pc = "search"]
            /\ UNCHANGED poolVars
    /\ UNCHANGED <<apiResponseCache, mainCache, call, resultChan, errorChan, doneChan,
                   updaterLog, withResultFrame>>

\* the goroutine ends: its deferred calls run last registered first, the
\* release of the slot (489) before the check of doneChan (463-470)
Deferred(t) == [IdleTask EXCEPT !.pc = IF t.pooled THEN "release" ELSE "deferCheck",
                                !.pooled = t.pooled]

\* 475-488, 492-504: searchFn returns; its outcome is sent without blocking
WithResultSearch(t, out) ==
    /\ task[t].pc = "search"
    /\ IF out.err
       THEN /\ errorChan' = Send(errorChan, t[1], SearchError)
            /\ UNCHANGED resultChan
       ELSE /\ resultChan' = Send(resultChan, t[1], out.results)
            /\ UNCHANGED errorChan
    /\ task' = [task EXCEPT ![t] = Deferred(@)]
    /\ UNCHANGED <<apiResponseCache, mainCache, call, doneChan, updaterLog, poolVars,
                   withResultFrame>>

\* 489: the deferred releaseWorkerSlot
WithResultRelease(t) ==
    /\ task[t].pc = "release"
    /\ backgroundWorkerPool' = backgroundWorkerPool - 1
    /\ backgroundTasksCount' = backgroundTasksCount - 1
    /\ task' = [task EXCEPT ![t] = [IdleTask EXCEPT !.pc = "deferCheck"]]
    /\ UNCHANGED <<apiResponseCache, mainCache, call, resultChan, errorChan, doneChan,
                   updaterLog, withResultFrame>>

\* 464-466, 580-582: the deferred select reads doneChan; a closed channel is
\* ready and ends the goroutine, an open one selects default
DeferCheck(t) ==
    /\ task[t].pc = "deferCheck"
    /\ task' = [task EXCEPT ![t].pc = IF doneChan[t[1]] > 0 THEN "done" ELSE "deferClose"]
    /\ UNCHANGED <<apiResponseCache, mainCache, call, resultChan, errorChan, doneChan,
                   updaterLog, poolVars, withResultFrame>>

\* 467-468, 583-584: close(doneChan)
DeferClose(t) ==
    /\ task[t].pc = "deferClose"
    /\ doneChan' = [doneChan EXCEPT ![t[1]] = @ + 1]
    /\ task' = [task EXCEPT ![t].pc = "done"]
    /\ UNCHANGED <<apiResponseCache, mainCache, call, resultChan, errorChan,
                   updaterLog, poolVars, withResultFrame>>

\* 513-523: the results arrive within the budget and are stored
WithResultStore(c) ==
    /\ call[c].pc = "select"
    /\ resultChan[c] # <<>>
    /\ resultChan' = [resultChan EXCEPT ![c] = <<>>]
    /\ apiResponseCache' = [apiResponseCache EXCEPT
           ![pluginSpecificCacheKey(call[c].keyword)] =
               cachedResponse(resultChan[c][1], call[c].now, TRUE, call[c].now, 1)]
    /\ call' = [call EXCEPT ![c].pc = "update", ![c].results = resultChan[c][1]]
    /\ UNCHANGED <<mainCache, errorChan, doneChan, task, updaterLog, poolVars,
                   withResultFrame>>

\* 525-541 and 603-610: p.mainCacheUpdater(mainCacheKey, results, p.cacheTTL,
\* true, p.currentKeyword), when there is a key and an updater
invokeUpdater(by, c, results) ==
    LET cacheKey == GeneratePluginCacheKey(call[c].keyword)
    IN IF cacheKey # "" /\ cacheInitialized
       THEN /\ mainCache' = mainCacheUpdater(mainCache, cacheKey, results)
            /\ updaterLog' = updaterLog \cup
                   {[by |-> by, key |-> cacheKey, results |-> results,
                     isFinal |-> TRUE, keyword |-> currentKeyword]}
       ELSE UNCHANGED <<mainCache, updaterLog>>

WithResultUpdate(c) ==
    /\ call[c].pc = "update"
    /\ invokeUpdater(<<c, "caller">>, c, call[c].results)
    /\ call' = [call EXCEPT ![c].pc = "done", ![c].via = "result"]
    /\ UNCHANGED <<apiResponseCache, resultChan, errorChan, doneChan, task, poolVars,
                   withResultFrame>>

\* 543-545
WithResultError(c) ==
    /\ call[c].pc = "select"
    /\ errorChan[c] # <<>>
    /\ errorChan' = [errorChan EXCEPT ![c] = <<>>]
    /\ call' = [call EXCEPT ![c] = Returned(c, "error", <<>>, TRUE)]
    /\ UNCHANGED <<apiResponseCache, mainCache, resultChan, doneChan, task,
                   updaterLog, poolVars, withResultFrame>>

\* 547-549: the response budget expires; completeSearchInBackground is started
WithResultTimerFire(c) ==
    /\ call[c].pc = "select"
    /\ resultChan[c] = <<>>
    /\ errorChan[c] = <<>>
    /\ call' = [call EXCEPT ![c].pc = "timeoutStore"]
    /\ task' = [task EXCEPT ![<<c, "complete">>] = Spawn("search")]
    /\ UNCHANGED <<apiResponseCache, mainCache, resultChan, errorChan, doneChan,
                   updaterLog, poolVars, withResultFrame>>

\* 551-567: the placeholder is stored and an empty, non-final result returned
WithResultTimeoutStore(c) ==
    /\ call[c].pc = "timeoutStore"
    /\ apiResponseCache' = [apiResponseCache EXCEPT
           ![pluginSpecificCacheKey(call[c].keyword)] =
               cachedResponse(<<>>, call[c].now, FALSE, call[c].now, 1)]
    /\ call' = [call EXCEPT ![c] = Returned(c, "timeout", <<>>, FALSE)]
    /\ UNCHANGED <<mainCache, resultChan, errorChan, doneChan, task, updaterLog,
                   poolVars, withResultFrame>>

\* 587-591: the second execution of searchFn returns
completeSearch(c, out) ==
    /\ task[<<c, "complete">>].pc = "search"
    /\ task' = [task EXCEPT ![<<c, "complete">>] =
           IF out.err THEN Deferred(@)
           ELSE [@ EXCEPT !.pc = "store", !.results = out.results]]
    /\ UNCHANGED <<apiResponseCache, mainCache, call, resultChan, errorChan, doneChan,
                   updaterLog, poolVars, withResultFrame>>

\* 594-601
completeStore(c) ==
    /\ task[<<c, "complete">>].pc = "store"
    /\ apiResponseCache' = [apiResponseCache EXCEPT
           ![pluginSpecificCacheKey(call[c].keyword)] =
               cachedResponse(task[<<c, "complete">>].results, clock, TRUE, clock, 1)]
    /\ task' = [task EXCEPT ![<<c, "complete">>].pc = "update"]
    /\ UNCHANGED <<mainCache, call, resultChan, errorChan, doneChan, updaterLog,
                   poolVars, withResultFrame>>

\* 603-611
completeUpdate(c) ==
    /\ task[<<c, "complete">>].pc = "update"
    /\ invokeUpdater(<<c, "complete">>, c, task[<<c, "complete">>].results)
    /\ task' = [task EXCEPT ![<<c, "complete">>] = Deferred(@)]
    /\ UNCHANGED <<apiResponseCache, call, resultChan, errorChan, doneChan, poolVars,
                   withResultFrame>>

WithResultNext ==
    \/ \E c \in Calls, keyword \in Keywords : AsyncSearchWithResult(c, keyword)
    \/ \E t \in Dispatchers : WithResultAcquire(t)
    \/ \E t \in Dispatchers, out \in WithResultReturns : WithResultSearch(t, out)
    \/ \E t \in Dispatchers : WithResultRelease(t)
    \/ \E t \in Closers : DeferCheck(t)
    \/ \E t \in Closers : DeferClose(t)
    \/ \E c \in Calls : WithResultStore(c)
    \/ \E c \in Calls : WithResultUpdate(c)
    \/ \E c \in Calls : WithResultError(c)
    \/ \E c \in Calls : WithResultTimerFire(c)
    \/ \E c \in Calls : WithResultTimeoutStore(c)
    \/ \E c \in Calls, out \in WithResultReturns : completeSearch(c, out)
    \/ \E c \in Calls : completeStore(c)
    \/ \E c \in Calls : completeUpdate(c)

SpecWithResult == WithResultInit /\ [][WithResultNext]_vars

\* C37: the doneChan of an AsyncSearchWithResult call is closed at most once:
\* no execution closes a channel that is already closed.
C37_DoneChanClosedAtMostOnce == \A c \in Calls : doneChan[c] <= 1


(***************************************************************************)
(* C38: the worker slots of the background tasks.                          *)
(***************************************************************************)
\* the tasks that have taken a slot and not yet given it back
Holders == { t \in DOMAIN task : task[t].pooled }
AllTasksEnded == \A t \in DOMAIN task : task[t].pc \in {"none", "done"}

\* the same balance for the processes of SpecPool, one step per access: a
\* process holds a slot from its send on the channel to its receive
SlotHolders == { w \in PoolProcs : slot[w] \in {"sent", "holding"} }
PoolSlotsBalanced ==
    /\ Cardinality(SlotHolders) = backgroundWorkerPool
    /\ backgroundWorkerPool <= MaxBackgroundWorkers
    /\ (\A w \in PoolProcs : slot[w] = "idle") =>
           backgroundWorkerPool = 0 /\ backgroundTasksCount = 0

SkipsOnTracker(t) ==
    /\ task[t].pc = "updCheck"
    /\ task'[t].pc # "updCheck"
    /\ ~updateSkipped(GeneratePluginCacheKey(call[t[1]].keyword), task[t].results)
    /\ hasUpdatedFinalCache(updateKey(GeneratePluginCacheKey(call[t[1]].keyword),
                                      task[t].results, TRUE))

\* C39: when updateMainCacheWithFinal skips a write because the tracker holds
\* the update key, the main cache holds results with that fingerprint under
\* the cache key.
C39_TrackedWriteIsInMainCache ==
    [][\A t \in Updaters :
          SkipsOnTracker(t) =>
              LET d == mainCache[GeneratePluginCacheKey(call[t[1]].keyword)]
              IN /\ d.present
                 /\ d.data # <<>>
                 /\ dataHash(d.data) = dataHash(task[t].results)]_vars

\* C40: every invocation of the updater by a background completion carries
\* the keyword of the query whose searchFn produced the results.
C40_UpdateCarriesOwnKeyword ==
    \A u \in updaterLog : u.keyword = call[u.by[1]].keyword

====
